---- MODULE Spec2Model ----
(***************************************************************************)
(* Photo library server: the relational store (libraries, albums, photos,  *)
(* tags, photo_tags, album_photos), the file area (directories and files)  *)
(* and the HTTP handlers that sequence operations on both.                 *)
(*                                                                         *)
(* Each handler is an operator from the current state and the request to   *)
(* its outcome: the HTTP status and the state it leaves.  A request is one *)
(* atomic action that installs the outcome (request-per-call, run to       *)
(* completion).                                                            *)
(* A handler takes its request inputs and a fault: the one call of the     *)
(* handler that fails in this request ("none" when every call succeeds).   *)
(* The calls that can fail are the store statements, tx.Commit and the     *)
(* file-area calls whose error the handler tests; the compensating         *)
(* os.Remove / removeDirectoryIfExists of a failure path, whose error the  *)
(* code discards, are modelled by their effect.                            *)
(*                                                                         *)
(* The store is SQLite opened without the foreign_keys pragma and the      *)
(* models declare no OnDelete constraint: deleting a row deletes that row  *)
(* only.  Primary keys and unique indexes are enforced.                    *)
(***************************************************************************)
EXTENDS Integers, Sequences, FiniteSets, TLC

\* ---------------------------------------------------------------- bounds
MaxLibraries == 2
MaxAlbums == 1
MaxPhotos == 2
MaxTags == 2

\* ---------------------------------------------------------------- inputs
\* an optional request field: <<>> when omitted, <<v>> when given
Absent == <<>>
Opt(S) == {Absent} \cup {<<v>> : v \in S}
LibNames == {"n1", "n2"}
TagNames == {"t1", "t2"}
AlbumNames == {"x", "y"}
TagLists == {<<>>, <<"t1">>, <<"t1", "t2">>}
\* the "tags" field of an upload form, cut at its commas: with blanks around
\* names, empty pieces and repeated names
TagForms ==
    TagLists \cup {<<"">>, <<" t1", "t1">>, <<"t2", "", "t2 ">>,
                   <<" ", "t1", "t2", "t1">>}
Orders == {0, 1}
\* the "color" of a request body, as its characters; omitted or empty, a hex
\* color, seven characters that are no hex color, five characters
NoColor == <<>>
ColorInputs ==
    {NoColor,
     <<"#", "F", "F", "0", "0", "0", "0">>,
     <<"#", "G", "G", "G", "G", "G", "G">>,
     <<"F", "F", "0", "0", "0", "0", "0">>,
     <<"#", "F", "F", "0", "0">>}
HexDigits == {"0", "1", "2", "3", "4", "5", "6", "7", "8", "9",
              "A", "B", "C", "D", "E", "F", "a", "b", "c", "d", "e", "f"}
\* '#' followed by six hex digits
IsHexColor(color) ==
    /\ Len(color) = 7
    /\ color[1] = "#"
    /\ \A i \in 2..7 : color[i] \in HexDigits
\* the "order" of a request body: omitted, or an integer
OrderInputs == Opt(Orders)

\* The "photo" part of an upload form: whether it is there, its Content-Type
\* header, whether header.Size exceeds config.MaxFileSize and whether
\* image.DecodeConfig reads it.
UploadFile(present, contentType, oversize, decodes) ==
    [present |-> present, contentType |-> contentType, oversize |-> oversize,
     decodes |-> decodes]
FileOK == UploadFile(TRUE, "image/jpeg", FALSE, TRUE)
FileInputs ==
    {FileOK,
     UploadFile(FALSE, "", FALSE, FALSE),
     UploadFile(TRUE, "text/plain", FALSE, TRUE),
     UploadFile(TRUE, "image/png", TRUE, TRUE),
     UploadFile(TRUE, "image/png", FALSE, FALSE)}

\* the "rating" field of an upload form, a string
RatingForms == {"", "x", "-1", "0", "3", "6"}
\* the "rating" of an Update Photo body, an integer when given
RatingValues == {-1, 0, 3, 5, 6}

\* A path string is modelled by its segments: abs says whether it starts
\* with "/", segs are the "/"-separated names.  "" is [abs F, segs <<>>],
\* "/" is [abs T, segs <<>>].
Path(abs, segs) == [abs |-> abs, segs |-> segs]
EmptyPath == Path(FALSE, <<>>)
RootPath == Path(TRUE, <<>>)
DotPath == Path(FALSE, <<".">>)
PathA == Path(TRUE, <<"a">>)
PathB == Path(TRUE, <<"b">>)
PathAC == Path(TRUE, <<"a", "c">>)
PathInputs == {EmptyPath, PathA, PathB, PathAC}
\* "/tmp/../etc/x", "/etc/x", "/a/..", "../x", "/a/../../b"
PathTmpUpEtc == Path(TRUE, <<"tmp", "..", "etc", "x">>)
PathEtc == Path(TRUE, <<"etc", "x">>)
PathAUp == Path(TRUE, <<"a", "..">>)
PathUp == Path(FALSE, <<"..", "x">>)
PathForms ==
    PathInputs \cup {RootPath, DotPath, PathTmpUpEtc, PathEtc, PathAUp, PathUp}

LibraryIds == 1..MaxLibraries
AlbumIds == 1..MaxAlbums
PhotoIds == 1..MaxPhotos
TagIds == 1..MaxTags

\* ------------------------------------------------------------ path rules
RECURSIVE CleanSegs(_, _, _)
\* filepath.Clean on the segments: "." and "" are dropped, ".." removes the
\* preceding name, is dropped at the root and kept in a relative path.
CleanSegs(abs, todo, out) ==
    IF todo = <<>> THEN out
    ELSE LET s == Head(todo) IN
         IF s = "." \/ s = "" THEN CleanSegs(abs, Tail(todo), out)
         ELSE IF s = ".."
              THEN IF out # <<>> /\ out[Len(out)] # ".."
                   THEN CleanSegs(abs, Tail(todo), SubSeq(out, 1, Len(out) - 1))
                   ELSE IF abs THEN CleanSegs(abs, Tail(todo), out)
                        ELSE CleanSegs(abs, Tail(todo), Append(out, ".."))
              ELSE CleanSegs(abs, Tail(todo), Append(out, s))

Clean(path) ==
    LET segs == CleanSegs(path.abs, path.segs, <<>>) IN
    IF ~path.abs /\ segs = <<>> THEN DotPath ELSE Path(path.abs, segs)

SensitivePrefixes == {"etc", "sys", "proc"}

\* strings.HasPrefix(path, "/etc") etc. on the raw string
HasSensitivePrefix(path) ==
    path.abs /\ path.segs # <<>> /\ path.segs[1] \in SensitivePrefixes

isValidPath(path) ==
    IF path = EmptyPath \/ HasSensitivePrefix(path) THEN FALSE
    ELSE LET cleanPath == Clean(path) IN
         /\ \A i \in 1..Len(cleanPath.segs) : cleanPath.segs[i] # ".."
         /\ cleanPath # RootPath
         /\ cleanPath # DotPath

\* ------------------------------------------------------------- file area
Cwd == <<"cwd">>

\* the directory the operating system resolves a path string to
DirOf(path) ==
    IF path.abs THEN Clean(path).segs
    ELSE CleanSegs(TRUE, Cwd \o path.segs, <<>>)

IsPrefix(d, e) == Len(d) <= Len(e) /\ SubSeq(e, 1, Len(d)) = d

\* Faulty variant of MkdirAll: no directory is made.
MkdirNone(ds, d) == ds

\* os.MkdirAll: the directory and every missing parent
MkdirAll(ds, d) == ds \cup {SubSeq(d, 1, n) : n \in 1..Len(d)}

\* os.RemoveAll on the directories / on the files
RemoveAllDirs(ds, d) == {e \in ds : ~IsPrefix(d, e)}
RemoveAllFiles(fs, d) == {f \in fs : ~IsPrefix(d, f.dir)}

\* filepath.Join(library.Images, filename)
JoinPath(images, filename) == [dir |-> DirOf(images), name |-> filename]

\* ----------------------------------------------------------------- state
VARIABLES
    libraries,    \* Library rows: [id, name, images]
    albums,       \* Album rows: [id, name, library_id]
    photos,       \* Photo rows: [id, library_id, filename, file_path, rating]
    tags,         \* Tag rows: [id, name]
    photoTags,    \* photo_tags rows: [photo_id, tag_id], the pair is the key
    albumPhotos,  \* album_photos rows: [album_id, photo_id, order]
    dirs,         \* directories that exist on disk
    files,        \* files that exist on disk: [dir, name]
    nextId,       \* the next fresh uuid of each kind
    inflight      \* requests between their lookups and their write

vars == <<libraries, albums, photos, tags, photoTags, albumPhotos, dirs, files,
          nextId, inflight>>

Init ==
    /\ libraries = {}
    /\ albums = {}
    /\ photos = {}
    /\ tags = {}
    /\ photoTags = {}
    /\ albumPhotos = {}
    /\ dirs = {}
    /\ files = {}
    /\ nextId = [library |-> 1, album |-> 1, photo |-> 1, tag |-> 1]
    /\ inflight = {}

\* The outcome of a request that changes nothing, with status still open.
\* warning: the handler took its "warn and carry on" branch.
Same ==
    [status |-> 0, warning |-> FALSE,
     libraries |-> libraries, albums |-> albums, photos |-> photos,
     tags |-> tags, photoTags |-> photoTags, albumPhotos |-> albumPhotos,
     dirs |-> dirs, files |-> files, nextId |-> nextId]

\* c.JSON(status, ...) as an early return, or after a failed call that left
\* nothing behind
Reject(status) == [Same EXCEPT !.status = status]

LibraryById(id) == {l \in libraries : l.id = id}
AlbumById(id) == {a \in albums : a.id = id}
PhotoById(id) == {p \in photos : p.id = id}
TagById(id) == {t \in tags : t.id = id}
The(S) == CHOOSE x \in S : TRUE

\* os.Remove(path): the file is gone afterwards
RemoveFile(fs, path) == fs \ {path}

\* Faulty variant of removeDirectoryIfExists: os.Remove in place of
\* os.RemoveAll, which takes the directory entry and leaves what is below it.
removeDirectoryOnly(ds, fs, d) == [dirs |-> ds \ {d}, files |-> fs]

\* removeDirectoryIfExists(path)
removeDirectoryIfExists(ds, fs, d) ==
    [dirs |-> RemoveAllDirs(ds, d), files |-> RemoveAllFiles(fs, d)]

\* Faulty variant of RowsAffectedStatus: the comparison is the wrong way
\* round, so the 404 follows a statement that did change rows.
RowsAffectedInverted(rowsAffected) == IF rowsAffected # 0 THEN 404 ELSE 200

\* if result.RowsAffected == 0 { 404 } else { 200 }, after the DELETE or UPDATE
\* statement has run
RowsAffectedStatus(rowsAffected) == IF rowsAffected = 0 THEN 404 ELSE 200

\* --------------------------------------------------------------- library
CreateLibraryFaults == {"none", "mkdir", "insert"}

\* Faulty variant of NameTaken: the name lookup never finds a row.
NameNeverTaken(name) == FALSE

\* h.db.Where("name = ?", req.Name).First(&existingLibrary).Error == nil
NameTaken(name) == \E l \in libraries : l.name = name

\* h.db.Where("images = ?", req.Images).First(&existingLibrary).Error == nil
PathTaken(images) == \E l \in libraries : l.images = images

CreateLibrary(name, images, fault) ==
    LET dir == DirOf(images)
        made == MkdirAll(dirs, dir)
        undone == removeDirectoryIfExists(made, files, dir)
    IN
    IF ~isValidPath(images) THEN Reject(400)
    ELSE IF NameTaken(name) THEN Reject(409)
    ELSE IF PathTaken(images) THEN Reject(409)
    ELSE IF fault = "mkdir" THEN Reject(500)
    ELSE IF fault = "insert"
    THEN [Same EXCEPT !.status = 500, !.dirs = undone.dirs, !.files = undone.files]
    ELSE [Same EXCEPT !.status = 201,
                      !.dirs = made,
                      !.libraries = @ \cup {[id |-> nextId.library, name |-> name,
                                             images |-> images]},
                      !.nextId.library = @ + 1]

GetLibrary(id) ==
    IF LibraryById(id) = {} THEN Reject(404) ELSE Reject(200)

UpdateLibraryFaults == {"none", "mkdir", "save"}

\* Faulty variant of PathChanged: every request that names a path counts.
PathGiven(images, library) == images # Absent

\* req.Images != nil && *req.Images != library.Images
PathChanged(images, library) == images # Absent /\ images[1] # library.images

UpdateLibrary(id, name, images, fault) ==
    IF images # Absent /\ ~isValidPath(images[1]) THEN Reject(400)
    ELSE IF LibraryById(id) = {} THEN Reject(404)
    ELSE
    LET library == The(LibraryById(id))
        pathChanged == PathChanged(images, library)
        updated == [id |-> id,
                    name |-> IF name # Absent THEN name[1] ELSE library.name,
                    images |-> IF images # Absent THEN images[1] ELSE library.images]
        dir == DirOf(updated.images)
        made == IF pathChanged THEN MkdirAll(dirs, dir) ELSE dirs
        undone == IF pathChanged THEN removeDirectoryIfExists(made, files, dir)
                  ELSE [dirs |-> dirs, files |-> files]
    IN
    IF name # Absent /\ \E l \in libraries : l.name = name[1] /\ l.id # id
    THEN Reject(409)
    ELSE IF pathChanged /\ \E l \in libraries : l.images = images[1] /\ l.id # id
    THEN Reject(409)
    ELSE IF pathChanged /\ fault = "mkdir" THEN Reject(500)
    ELSE IF fault = "save"
    THEN [Same EXCEPT !.status = 500, !.dirs = undone.dirs, !.files = undone.files]
    ELSE [Same EXCEPT !.status = 200,
                      !.dirs = made,
                      !.libraries = (@ \ {library}) \cup {updated}]

DeleteLibraryFaults == {"none", "tx", "commit", "remove"}

\* tx.Where("library_id = ?", id).Delete(&models.Photo{})
DeleteLibraryPhotos(id) == {p \in photos : p.library_id # id}

\* tx.Where("library_id = ?", id).Delete(&models.Album{})
DeleteLibraryAlbums(id) == {a \in albums : a.library_id # id}

\* Faulty variant of DeleteLibraryDirectory: a failed removal is answered 500.
DeleteLibraryDirectoryStrict(rows, library, fault) ==
    LET dir == DirOf(library.images)
        removed == removeDirectoryIfExists(dirs, files, dir)
    IN
    IF fault = "remove" /\ dir \in dirs THEN [rows EXCEPT !.status = 500]
    ELSE [rows EXCEPT !.status = 200, !.dirs = removed.dirs, !.files = removed.files]

\* The end of DeleteLibrary, after tx.Commit(): removeDirectoryIfExists; its
\* error (os.RemoveAll fails, which takes the directory to exist) adds a
\* warning to the same 200.
DeleteLibraryDirectory(rows, library, fault) ==
    LET dir == DirOf(library.images)
        removed == removeDirectoryIfExists(dirs, files, dir)
    IN
    IF fault = "remove" /\ dir \in dirs
    THEN [rows EXCEPT !.status = 200, !.warning = TRUE]
    ELSE [rows EXCEPT !.status = 200, !.dirs = removed.dirs, !.files = removed.files]

DeleteLibrary(id, fault) ==
    IF LibraryById(id) = {} THEN Reject(404)
    ELSE
    LET library == The(LibraryById(id))
        \* the result of tx.Commit() is not looked at
        rows == IF fault = "commit" THEN Same
                ELSE [Same EXCEPT !.photos = DeleteLibraryPhotos(id),
                                  !.albums = DeleteLibraryAlbums(id),
                                  !.libraries = @ \ {library}]
    IN
    IF fault = "tx" THEN Reject(500)  \* tx.Rollback()
    ELSE DeleteLibraryDirectory(rows, library, fault)

\* ----------------------------------------------------------------- album
InsertFaults == {"none", "insert"}

CreateAlbum(name, libraryID, fault) ==
    IF LibraryById(libraryID) = {} THEN Reject(404)
    ELSE IF fault = "insert" THEN Reject(500)
    ELSE [Same EXCEPT !.status = 201,
                      !.albums = @ \cup {[id |-> nextId.album, name |-> name,
                                          library_id |-> libraryID]},
                      !.nextId.album = @ + 1]

SaveFaults == {"none", "save"}

\* name: Absent when the body has no name
UpdateAlbum(id, name, fault) ==
    IF AlbumById(id) = {} THEN Reject(404)
    ELSE IF fault = "save" THEN Reject(500)
    ELSE LET album == The(AlbumById(id))
             updated == IF name # Absent THEN [album EXCEPT !.name = name[1]]
                        ELSE album
         IN [Same EXCEPT !.status = 200, !.albums = (@ \ {album}) \cup {updated}]

GetAlbum(id) ==
    IF AlbumById(id) = {} THEN Reject(404) ELSE Reject(200)

\* Faulty variant of SameLibrary: the photo is compared with itself.
SameLibraryUnchecked(photo, album) == photo.library_id = photo.library_id

\* photo.LibraryID == album.LibraryID
SameLibrary(photo, album) == photo.library_id = album.library_id

\* req.Order: the zero value when the body has no order
OrderOf(order) == IF order = Absent THEN 0 ELSE order[1]

\* Faulty variant of InAlbum: the lookup never finds a row.
InAlbumNever(id, photoID) == FALSE

\* h.db.Where("album_id = ? AND photo_id = ?", id, req.PhotoID).First(...)
\* finds a row
InAlbum(id, photoID) ==
    \E ap \in albumPhotos : ap.album_id = id /\ ap.photo_id = photoID

\* the primary key (album_id, photo_id) of album_photos refuses a second row
AlbumPhotoKeyTaken(id, photoID) ==
    \E ap \in albumPhotos : ap.album_id = id /\ ap.photo_id = photoID

AddPhotoToAlbum(id, photoID, order, fault) ==
    IF AlbumById(id) = {} THEN Reject(404)
    ELSE IF PhotoById(photoID) = {} THEN Reject(404)
    ELSE IF ~SameLibrary(The(PhotoById(photoID)), The(AlbumById(id)))
    THEN Reject(400)
    ELSE IF InAlbum(id, photoID) THEN Reject(409)
    ELSE IF fault = "insert" \/ AlbumPhotoKeyTaken(id, photoID) THEN Reject(500)
    ELSE [Same EXCEPT !.status = 201,
                      !.albumPhotos = @ \cup {[album_id |-> id, photo_id |-> photoID,
                                               order |-> OrderOf(order)]}]

TxFaults == {"none", "tx", "commit"}

\* Faulty variant of DeleteAlbumPhotos: the album_photos rows stay.
KeepAlbumPhotos(id) == albumPhotos

\* tx.Where("album_id = ?", id).Delete(&models.AlbumPhoto{})
DeleteAlbumPhotos(id) == {ap \in albumPhotos : ap.album_id # id}

DeleteAlbum(id, fault) ==
    IF AlbumById(id) = {} THEN Reject(404)
    ELSE IF fault = "tx" THEN Reject(500)  \* tx.Rollback()
    ELSE IF fault = "commit" THEN Reject(200)  \* tx.Commit() is not looked at
    ELSE [Same EXCEPT !.status = 200,
                      !.albumPhotos = DeleteAlbumPhotos(id),
                      !.albums = @ \ AlbumById(id)]

DeleteFaults == {"none", "delete"}

RemovePhotoFromAlbum(id, photoID, fault) ==
    LET hit == {ap \in albumPhotos : ap.album_id = id /\ ap.photo_id = photoID} IN
    IF fault = "delete" THEN Reject(500)
    ELSE [Same EXCEPT !.status = RowsAffectedStatus(Cardinality(hit)),
                      !.albumPhotos = @ \ hit]

UpdateFaults == {"none", "update"}

\* binding:"required" on Order int: an omitted order and the value 0 fail
OrderBinds(order) == order # Absent /\ order[1] # 0

UpdatePhotoOrder(id, photoID, order, fault) ==
    LET hit == {ap \in albumPhotos : ap.album_id = id /\ ap.photo_id = photoID} IN
    IF ~OrderBinds(order) THEN Reject(400)
    ELSE IF fault = "update" THEN Reject(500)
    ELSE [Same EXCEPT !.status = RowsAffectedStatus(Cardinality(hit)),
                      !.albumPhotos = (@ \ hit)
                          \cup {[ap EXCEPT !.order = order[1]] : ap \in hit}]

\* ------------------------------------------------------------------- tag
\* binding:"omitempty,len=7" on Color string: the empty string is left
\* alone, any other must be 7 characters long
ColorBinds(color) == color = NoColor \/ Len(color) = 7

\* the color column is not part of the rows of the model
CreateTag(name, color, fault) ==
    IF ~ColorBinds(color) THEN Reject(400)
    ELSE IF \E t \in tags : t.name = name THEN Reject(409)
    ELSE IF fault = "insert" THEN Reject(500)
    ELSE [Same EXCEPT !.status = 201,
                      !.tags = @ \cup {[id |-> nextId.tag, name |-> name]},
                      !.nextId.tag = @ + 1]

\* h.db.Where("name = ? AND id != ?", req.Name, id).First(&existingTag)
TagNameTakenByOther(name, id) == \E t \in tags : t.name = name /\ t.id # id

UpdateTag(id, name, color, fault) ==
    IF ~ColorBinds(color) THEN Reject(400)
    ELSE IF TagById(id) = {} THEN Reject(404)
    ELSE IF TagNameTakenByOther(name, id) THEN Reject(409)
    ELSE IF fault = "save" THEN Reject(500)
    ELSE LET tag == The(TagById(id)) IN
         [Same EXCEPT !.status = 200,
                      !.tags = (@ \ {tag}) \cup {[tag EXCEPT !.name = name]}]

\* Faulty variant of DeleteTagPhotos: the photo_tags rows stay.
KeepTagPhotos(id) == photoTags

\* tx.Where("tag_id = ?", id).Delete(&models.PhotoTag{})
DeleteTagPhotos(id) == {pt \in photoTags : pt.tag_id # id}

DeleteTag(id, fault) ==
    IF TagById(id) = {} THEN Reject(404)
    ELSE IF fault = "tx" THEN Reject(500)  \* tx.Rollback()
    ELSE IF fault = "commit" THEN Reject(200)  \* tx.Commit() is not looked at
    ELSE [Same EXCEPT !.status = 200,
                      !.photoTags = DeleteTagPhotos(id),
                      !.tags = @ \ TagById(id)]

\* Faulty variant of TagOnPhoto: the lookup never finds a row.
TagOnPhotoNever(id, photoID) == FALSE

\* h.db.Where("tag_id = ? AND photo_id = ?", id, req.PhotoID).First(...)
\* finds a row
TagOnPhoto(id, photoID) ==
    \E pt \in photoTags : pt.tag_id = id /\ pt.photo_id = photoID

\* Faulty variant of PhotoTagKeyTaken: the table has no primary key.
PhotoTagKeyMissing(id, photoID) == FALSE

\* the primary key (photo_id, tag_id) of photo_tags refuses a second row
PhotoTagKeyTaken(id, photoID) ==
    \E pt \in photoTags : pt.tag_id = id /\ pt.photo_id = photoID

AddTagToPhoto(id, photoID, fault) ==
    IF TagById(id) = {} THEN Reject(404)
    ELSE IF PhotoById(photoID) = {} THEN Reject(404)
    ELSE IF TagOnPhoto(id, photoID) THEN Reject(409)
    ELSE IF fault = "insert" \/ PhotoTagKeyTaken(id, photoID) THEN Reject(500)
    ELSE [Same EXCEPT !.status = 201,
                      !.photoTags = @ \cup {[photo_id |-> photoID, tag_id |-> id]}]

RemoveTagFromPhoto(id, photoID, fault) ==
    LET hit == {pt \in photoTags : pt.tag_id = id /\ pt.photo_id = photoID} IN
    IF fault = "delete" THEN Reject(500)
    ELSE [Same EXCEPT !.status = RowsAffectedStatus(Cardinality(hit)),
                      !.photoTags = @ \ hit]

RECURSIVE SumPhotoCount(_)
\* the sum of photo_count over the rows of a breakdown
SumPhotoCount(rows) ==
    IF rows = {} THEN 0
    ELSE LET r == CHOOSE x \in rows : TRUE IN
         r.photo_count + SumPhotoCount(rows \ {r})

\* COUNT(photo_tags.photo_id) of one group of the join
\* libraries JOIN photos JOIN photo_tags WHERE photo_tags.tag_id = id
TagPhotosInLibrary(id, library) ==
    Cardinality({pt \in photoTags :
        /\ pt.tag_id = id
        /\ \E p \in photos : p.id = pt.photo_id /\ p.library_id = library.id})

\* GetTagStats: the response body; photo_count is the COUNT of the photo_tags
\* rows of the tag, libraries has one row per library the join finds
GetTagStats(id) ==
    IF TagById(id) = {}
    THEN [status |-> 404, photo_count |-> 0, libraries |-> {}]
    ELSE [status |-> 200,
          photo_count |-> Cardinality({pt \in photoTags : pt.tag_id = id}),
          libraries |-> {[library_id |-> l.id, library_name |-> l.name,
                          photo_count |-> TagPhotosInLibrary(id, l)] :
                         l \in {m \in libraries : TagPhotosInLibrary(id, m) > 0}}]

\* ----------------------------------------------------------------- photo
\* generateUniqueFilename: name_timestamp_uuid8.ext; the uuid part is taken
\* never to repeat, so the name is the next fresh value
generateUniqueFilename == nextId.photo

\* PhotoHandler.addTagToPhoto on st = [tags, photoTags, next]: find the Tag
\* by name or create it, then create the photo_tags row (a second row for
\* the same pair is refused by the primary key); the result says whether the
\* call returned an error
addTagToPhoto(st, photoID, tagName, fault) ==
    LET found == {t \in st.tags : t.name = tagName}
        tag == IF found # {} THEN The(found)
               ELSE [id |-> st.next, name |-> tagName]
        photoTag == [photo_id |-> photoID, tag_id |-> tag.id]
        created == IF found # {} THEN st
                   ELSE [st EXCEPT !.tags = @ \cup {tag}, !.next = @ + 1]
    IN
    IF fault = "tag find" THEN [st |-> st, err |-> TRUE]
    ELSE IF found = {} /\ fault = "tag create" THEN [st |-> st, err |-> TRUE]
    ELSE IF fault = "tag associate" \/ photoTag \in st.photoTags
    THEN [st |-> created, err |-> TRUE]
    ELSE [st |-> [created EXCEPT !.photoTags = @ \cup {photoTag}],
          err |-> FALSE]

\* strings.TrimSpace on the pieces that occur in requests
TrimSpace(str) ==
    CASE str = " t1" -> "t1"
      [] str = "t2 " -> "t2"
      [] str = " " -> ""
      [] OTHER -> str

\* Faulty variant of TagNameGiven: the empty name is handled like any other.
TagNameAlways(tagName) == TRUE

\* if tagName != ""
TagNameGiven(tagName) == tagName # ""

\* Faulty variant of AfterTagError: an error ends the loop.
AfterTagErrorStop(err, rest) == IF err THEN <<>> ELSE rest

\* h.addTagToPhoto(&photo, tagName) as a statement: the error is dropped and
\* the loop goes on with the names that are left
AfterTagError(err, rest) == rest

RECURSIVE addTagsToPhoto(_, _, _, _)
\* the loop over strings.Split(tagsStr, ","); tagNames are the pieces between
\* the commas; fault is the call that fails for the first name given
addTagsToPhoto(st, photoID, tagNames, fault) ==
    IF tagNames = <<>> THEN st
    ELSE LET tagName == TrimSpace(Head(tagNames)) IN
         IF ~TagNameGiven(tagName)
         THEN addTagsToPhoto(st, photoID, Tail(tagNames), fault)
         ELSE LET r == addTagToPhoto(st, photoID, tagName, fault) IN
              addTagsToPhoto(r.st, photoID,
                             AfterTagError(r.err, Tail(tagNames)), "none")

\* the calls of addTagToPhoto that can fail: the lookup of the Tag, the
\* insert of a new Tag, the insert of the photo_tags row
TagFaults == {"tag find", "tag create", "tag associate"}

UploadPhotoFaults == {"none", "mkdir", "create", "copy", "insert"}

\* Faulty variant of UploadFilePath: the file name is not joined to the
\* library's path, so the file lands in the working directory.
UploadFilePathBare(libraryID) == [dir |-> Cwd, name |-> generateUniqueFilename]

\* the path Upload Photo writes to for this library
UploadFilePath(libraryID) ==
    JoinPath(The(LibraryById(libraryID)).images, generateUniqueFilename)

\* Faulty variant of UploadCleanup: the written file is left behind.
UploadNoCleanup(written, filePath) == written

\* the files after the failed io.Copy or the failed insert: os.Remove(filePath)
UploadCleanup(written, filePath) == RemoveFile(written, filePath)

\* config.AllowedTypes
AllowedTypes ==
    {"image/jpeg", "image/png", "image/gif", "image/webp", "image/tiff", "image/bmp"}

isValidImageType(mimeType) == mimeType \in AllowedTypes

\* strconv.Atoi on the strings of a form or query: <<n>> for the text of an
\* integer n, Absent for an error
Atoi(str) ==
    CASE str = "-1" -> <<-1>>
      [] str = "0" -> <<0>>
      [] str = "1" -> <<1>>
      [] str = "2" -> <<2>>
      [] str = "3" -> <<3>>
      [] str = "6" -> <<6>>
      [] str = "100" -> <<100>>
      [] str = "101" -> <<101>>
      [] OTHER -> Absent

\* the CHECK constraint of photos.rating: a write of a rating outside 0..5
\* fails
RatingCheck(rating) == rating = Absent \/ (rating[1] >= 0 /\ rating[1] <= 5)

\* Faulty variant of ParseRating: the range of the number is not looked at.
ParseRatingAnyNumber(ratingStr) == Atoi(ratingStr)

\* UploadPhoto, "Parse optional rating": nil unless the field is the text of
\* an integer in 0..5
ParseRating(ratingStr) ==
    IF ratingStr # "" /\ Atoi(ratingStr) # Absent
       /\ Atoi(ratingStr)[1] >= 0 /\ Atoi(ratingStr)[1] <= 5
    THEN Atoi(ratingStr)
    ELSE Absent

UploadPhoto(libraryID, file, ratingStr, tagNames, fault) ==
    IF LibraryById(libraryID) = {} THEN Reject(404)
    ELSE IF ~file.present THEN Reject(400)
    ELSE IF ~isValidImageType(file.contentType) THEN Reject(400)
    ELSE IF file.oversize THEN Reject(400)
    ELSE IF ~file.decodes THEN Reject(400)
    ELSE
    LET filename == generateUniqueFilename
        filePath == UploadFilePath(libraryID)
        made == MkdirAll(dirs, filePath.dir)
        written == files \cup {filePath}
        photo == [id |-> nextId.photo, library_id |-> libraryID,
                  filename |-> filename, file_path |-> filePath,
                  rating |-> ParseRating(ratingStr)]
        tagged == addTagsToPhoto(
                      [tags |-> tags, photoTags |-> photoTags, next |-> nextId.tag],
                      photo.id, tagNames,
                      IF fault \in TagFaults THEN fault ELSE "none")
    IN
    IF fault = "mkdir" THEN Reject(500)
    ELSE IF fault = "create" THEN [Same EXCEPT !.status = 500, !.dirs = made]
    ELSE IF fault \in {"copy", "insert"} \/ ~RatingCheck(photo.rating)
    THEN [Same EXCEPT !.status = 500, !.dirs = made,
                      !.files = UploadCleanup(written, filePath)]
    ELSE [Same EXCEPT !.status = 201,
                      !.dirs = made,
                      !.files = written,
                      !.photos = @ \cup {photo},
                      !.tags = tagged.tags,
                      !.photoTags = tagged.photoTags,
                      !.nextId.photo = @ + 1,
                      !.nextId.tag = tagged.next]

GetPhoto(id) ==
    IF PhotoById(id) = {} THEN Reject(404) ELSE Reject(200)

GetPhotosFaults == {"none", "find", "count"}

\* the "page" and "limit" of a query string: missing, no number, not positive,
\* small, the largest limit taken, one above it
PageInputs == {"", "abc", "0", "1", "2"}
LimitInputs == {"", "abc", "-1", "0", "1", "2", "100", "101"}
\* the "library_id" and "tag" of a query string
LibraryFilters == Opt(LibraryIds)
TagFilters == {""} \cup TagNames

\* GetPhotos, "Pagination": page 1 unless the parameter is the text of a
\* positive integer
PageNumber(p) ==
    IF p # "" /\ Atoi(p) # Absent /\ Atoi(p)[1] > 0 THEN Atoi(p)[1] ELSE 1

\* Faulty variant of PageLimit: a limit above 100 is taken as it is.
PageLimitUnbounded(l) ==
    IF l # "" /\ Atoi(l) # Absent /\ Atoi(l)[1] > 0 THEN Atoi(l)[1] ELSE 50

\* GetPhotos, "Pagination": limit 50 unless the parameter is the text of an
\* integer in 1..100
PageLimit(l) ==
    IF l # "" /\ Atoi(l) # Absent /\ Atoi(l)[1] > 0 /\ Atoi(l)[1] <= 100
    THEN Atoi(l)[1]
    ELSE 50

\* the WHERE and JOIN clauses GetPhotos puts on both its queries: a rating
\* that is no integer in 0..5 does not filter
PhotosMatching(libraryID, rating, tagName) ==
    {p \in photos :
        /\ libraryID # Absent => p.library_id = libraryID[1]
        /\ ParseRating(rating) # Absent => p.rating = ParseRating(rating)
        /\ tagName # "" =>
               \E pt \in photoTags, t \in tags :
                   pt.photo_id = p.id /\ pt.tag_id = t.id /\ t.name = tagName}

\* ORDER BY uploaded_at desc, the default: the ids of the model are handed out
\* in the order of the uploads
RECURSIVE NewestFirst(_)
NewestFirst(rows) ==
    IF rows = {} THEN <<>>
    ELSE LET newest == CHOOSE p \in rows : \A q \in rows : q.id <= p.id
         IN <<newest>> \o NewestFirst(rows \ {newest})

\* OFFSET offset LIMIT limit
OffsetLimit(rows, offset, limit) ==
    SubSeq(rows, offset + 1,
           IF offset + limit < Len(rows) THEN offset + limit ELSE Len(rows))

\* GetPhotos: the response; the error of the count query is not looked at and
\* leaves total at 0
GetPhotos(libraryID, rating, tagName, p, l, fault) ==
    LET page == PageNumber(p)
        limit == PageLimit(l)
        offset == (page - 1) * limit
        matching == PhotosMatching(libraryID, rating, tagName)
    IN IF fault = "find"
       THEN [status |-> 500, photos |-> <<>>, page |-> page, limit |-> limit,
             total |-> 0]
       ELSE [status |-> 200,
             photos |-> OffsetLimit(NewestFirst(matching), offset, limit),
             page |-> page,
             limit |-> limit,
             total |-> IF fault = "count" THEN 0 ELSE Cardinality(matching)]

UpdatePhotoFaults == {"none", "save"}

\* Faulty variant of RatingBinds: the field has no min and max tags.
RatingBindsUnchecked(rating) == TRUE

\* binding:"omitempty,min=0,max=5" on Rating *int: a nil pointer and the
\* value 0 are "empty" and skip the range check
RatingBinds(rating) ==
    rating = Absent \/ rating[1] = 0 \/ (rating[1] >= 0 /\ rating[1] <= 5)

\* rating: Absent when the body has no rating, <<n>> when it has the integer n
UpdatePhoto(id, rating, fault) ==
    IF ~RatingBinds(rating) THEN Reject(400)
    ELSE IF PhotoById(id) = {} THEN Reject(404)
    ELSE IF fault = "save" \/ ~RatingCheck(rating) THEN Reject(500)
    ELSE LET photo == The(PhotoById(id)) IN
         [Same EXCEPT !.status = 200,
                      !.photos = (@ \ {photo}) \cup {[photo EXCEPT !.rating = rating]}]

ServePhoto(id) ==
    IF PhotoById(id) = {} THEN Reject(404)
    ELSE IF The(PhotoById(id)).file_path \notin files THEN Reject(404)
    ELSE Reject(200)

DeletePhotoFaults == {"none", "tx", "commit", "remove"}

\* tx.Where("photo_id = ?", id).Delete(&models.PhotoTag{})
DeletePhotoTags(id) == {pt \in photoTags : pt.photo_id # id}

\* Faulty variant of DeletePhotoAlbums: the album_photos rows are not deleted.
KeepPhotoAlbums(id) == albumPhotos

\* tx.Where("photo_id = ?", id).Delete(&models.AlbumPhoto{})
DeletePhotoAlbums(id) == {ap \in albumPhotos : ap.photo_id # id}

\* Faulty variant of DeletePhotoFile: an os.Remove error is answered 500.
DeletePhotoFileStrict(rows, photo, fault) ==
    IF fault = "remove" \/ photo.file_path \notin files
    THEN [rows EXCEPT !.status = 500]
    ELSE [rows EXCEPT !.status = 200,
                      !.files = RemoveFile(files, photo.file_path)]

\* The end of DeletePhoto, after tx.Commit(): os.Remove(photo.FilePath); an
\* error (the removal fails, or the file is absent) is printed as a warning
\* and the response is the same 200.
DeletePhotoFile(rows, photo, fault) ==
    IF fault = "remove" THEN [rows EXCEPT !.status = 200, !.warning = TRUE]
    ELSE [rows EXCEPT !.status = 200,
                      !.warning = photo.file_path \notin files,
                      !.files = RemoveFile(files, photo.file_path)]

DeletePhoto(id, fault) ==
    IF PhotoById(id) = {} THEN Reject(404)
    ELSE
    LET photo == The(PhotoById(id))
        \* the result of tx.Commit() is not looked at
        rows == IF fault = "commit" THEN Same
                ELSE [Same EXCEPT !.photoTags = DeletePhotoTags(id),
                                  !.albumPhotos = DeletePhotoAlbums(id),
                                  !.photos = @ \ {photo}]
    IN
    IF fault = "tx" THEN Reject(500)  \* tx.Rollback()
    ELSE DeletePhotoFile(rows, photo, fault)

CopyPhotoFaults == {"none", "mkdir", "open", "tx", "commit"}

\* Preload("Tags"): the Tag rows joined to the photo through photo_tags
PhotoTagsOf(photoID) ==
    {t \in tags : [photo_id |-> photoID, tag_id |-> t.id] \in photoTags}

\* Faulty variant of CopyTags: no photo_tags row is written for the copy.
CopyNoTags(newID, sourceTags) == {}

\* the photo_tags rows of the copy, one per tag of the source
CopyTags(newID, sourceTags) ==
    {[photo_id |-> newID, tag_id |-> t.id] : t \in sourceTags}

\* Faulty variant of CopyRow: the copy keeps the stored filename of the source.
CopyRowSameFilename(sourcePhoto, libraryID, newFilename, newFilePath) ==
    [id |-> nextId.photo, library_id |-> libraryID,
     filename |-> sourcePhoto.filename, file_path |-> newFilePath,
     rating |-> sourcePhoto.rating]

\* Faulty variant of CopyRow: the row keeps the id of the source, so the
\* insert is a write to the source's row with the target library in it.
CopyRowKeepsId(sourcePhoto, libraryID, newFilename, newFilePath) ==
    [id |-> sourcePhoto.id, library_id |-> libraryID,
     filename |-> newFilename, file_path |-> newFilePath,
     rating |-> sourcePhoto.rating]

\* the Photo row of the copy
CopyRow(sourcePhoto, libraryID, newFilename, newFilePath) ==
    [id |-> nextId.photo, library_id |-> libraryID,
     filename |-> newFilename, file_path |-> newFilePath,
     rating |-> sourcePhoto.rating]

CopyPhoto(sourceID, libraryID, fault) ==
    IF PhotoById(sourceID) = {} THEN Reject(404)
    ELSE IF LibraryById(libraryID) = {} THEN Reject(404)
    ELSE
    LET sourcePhoto == The(PhotoById(sourceID))
        sourceTags == PhotoTagsOf(sourceID)
        targetLibrary == The(LibraryById(libraryID))
        newFilename == generateUniqueFilename
        newFilePath == JoinPath(targetLibrary.images, newFilename)
        made == MkdirAll(dirs, newFilePath.dir)
        copied == files \cup {newFilePath}
        newPhoto == CopyRow(sourcePhoto, libraryID, newFilename, newFilePath)
    IN
    IF sourcePhoto.file_path \notin files THEN Reject(404)
    ELSE IF fault = "mkdir" THEN Reject(500)
    ELSE IF fault = "open"  \* copyFile fails on os.Open
    THEN [Same EXCEPT !.status = 500, !.dirs = made]
    ELSE IF fault = "tx"  \* tx.Rollback(); os.Remove(newFilePath)
    THEN [Same EXCEPT !.status = 500, !.dirs = made,
                      !.files = RemoveFile(copied, newFilePath)]
    ELSE IF fault = "commit"  \* the result of tx.Commit() is not looked at
    THEN [Same EXCEPT !.status = 201, !.dirs = made, !.files = copied,
                      !.nextId.photo = @ + 1]
    ELSE [Same EXCEPT !.status = 201, !.dirs = made, !.files = copied,
                      !.photos = @ \cup {newPhoto},
                      !.photoTags = @ \cup CopyTags(newPhoto.id, sourceTags),
                      !.nextId.photo = @ + 1]

\* -------------------------------------------------------------- requests
\* A request installs the outcome of its handler; the uuids of each kind are
\* bounded.
Install(o) ==
    /\ o.nextId.library <= MaxLibraries + 1
    /\ o.nextId.album <= MaxAlbums + 1
    /\ o.nextId.photo <= MaxPhotos + 1
    /\ o.nextId.tag <= MaxTags + 1
    /\ libraries' = o.libraries
    /\ albums' = o.albums
    /\ photos' = o.photos
    /\ tags' = o.tags
    /\ photoTags' = o.photoTags
    /\ albumPhotos' = o.albumPhotos
    /\ dirs' = o.dirs
    /\ files' = o.files
    /\ nextId' = o.nextId

\* a request whose handler runs from its first statement to its response with
\* no statement of another request in between
Serve(o) == Install(o) /\ inflight' = inflight

NoFault == {"none"}

\* POST /libraries
PostLibraries(Names, Paths, Faults) ==
    \E name \in Names, images \in Paths, fault \in Faults :
        Serve(CreateLibrary(name, images, fault))

\* POST /libraries with one of two fixed requests, the second library's
\* directory lying inside the first's
PostLibrariesFixed ==
    \E req \in {<<"n1", PathA>>, <<"n2", PathAC>>} :
        Serve(CreateLibrary(req[1], req[2], "none"))

\* PUT /libraries/:id
PutLibrary(Names, Paths, Faults) ==
    \E id \in LibraryIds, name \in Opt(Names), images \in Opt(Paths),
       fault \in Faults :
        Serve(UpdateLibrary(id, name, images, fault))

\* DELETE /libraries/:id
DeleteLibraryReq(Faults) ==
    \E id \in LibraryIds, fault \in Faults : Serve(DeleteLibrary(id, fault))

\* POST /photos/upload
PostPhotosUpload(Files, Ratings, Lists, Faults) ==
    \E id \in LibraryIds, file \in Files, ratingStr \in Ratings,
       tagNames \in Lists, fault \in Faults :
        Serve(UploadPhoto(id, file, ratingStr, tagNames, fault))

\* POST /photos/:id/copy
PostPhotoCopy(Faults) ==
    \E id \in PhotoIds, lib \in LibraryIds, fault \in Faults :
        Serve(CopyPhoto(id, lib, fault))

\* DELETE /photos/:id
DeletePhotoReq(Faults) ==
    \E id \in PhotoIds, fault \in Faults : Serve(DeletePhoto(id, fault))

\* GET /libraries/:id, /albums/:id, /photos/:id
GetRequests ==
    \/ \E id \in LibraryIds : Serve(GetLibrary(id))
    \/ \E id \in AlbumIds : Serve(GetAlbum(id))
    \/ \E id \in PhotoIds : Serve(GetPhoto(id))

\* GET /photos
GetPhotosReq(Pages, Limits, Faults) ==
    /\ \E libraryID \in LibraryFilters, rating \in {"", "3"},
          tagName \in TagFilters, p \in Pages, l \in Limits,
          fault \in Faults :
           GetPhotos(libraryID, rating, tagName, p, l, fault).status
               \in {200, 500}
    /\ UNCHANGED vars

\* POST /albums
PostAlbums(Names, Faults) ==
    \E name \in Names, lib \in LibraryIds, fault \in Faults :
        Serve(CreateAlbum(name, lib, fault))

\* POST /albums/:id/photos
PostAlbumPhotos(Faults) ==
    \E id \in AlbumIds, photoID \in PhotoIds, order \in OrderInputs,
       fault \in Faults :
        Serve(AddPhotoToAlbum(id, photoID, order, fault))

\* POST /tags
PostTags(Faults) ==
    \E name \in TagNames, color \in ColorInputs, fault \in Faults :
        Serve(CreateTag(name, color, fault))

\* DELETE /tags/:id
DeleteTagReq(Faults) ==
    \E id \in TagIds, fault \in Faults : Serve(DeleteTag(id, fault))

\* POST /tags/:id/photos
PostTagPhotos(Faults) ==
    \E id \in TagIds, photoID \in PhotoIds, fault \in Faults :
        Serve(AddTagToPhoto(id, photoID, fault))

\* DELETE /tags/:id/photos/:photo_id
DeleteTagPhoto(Faults) ==
    \E id \in TagIds, photoID \in PhotoIds, fault \in Faults :
        Serve(RemoveTagFromPhoto(id, photoID, fault))

\* PUT /albums/:id
PutAlbum(Names, Faults) ==
    \E id \in AlbumIds, name \in Opt(Names), fault \in Faults :
        Serve(UpdateAlbum(id, name, fault))

\* DELETE /albums/:id
DeleteAlbumReq(Faults) ==
    \E id \in AlbumIds, fault \in Faults : Serve(DeleteAlbum(id, fault))

\* DELETE /albums/:id/photos/:photo_id
DeleteAlbumPhoto(Faults) ==
    \E id \in AlbumIds, photoID \in PhotoIds, fault \in Faults :
        Serve(RemovePhotoFromAlbum(id, photoID, fault))

\* PUT /albums/:id/photos/:photo_id/order
PutAlbumPhotoOrder(Faults) ==
    \E id \in AlbumIds, photoID \in PhotoIds, order \in OrderInputs,
       fault \in Faults :
        Serve(UpdatePhotoOrder(id, photoID, order, fault))

\* PUT /photos/:id
PutPhoto(Ratings, Faults) ==
    \E id \in PhotoIds, rating \in Opt(Ratings), fault \in Faults :
        Serve(UpdatePhoto(id, rating, fault))

\* PUT /tags/:id
PutTag(Faults) ==
    \E id \in TagIds, name \in TagNames, color \in ColorInputs, fault \in Faults :
        Serve(UpdateTag(id, name, color, fault))

\* ---------------------------------------------------- requests in flight
\* gin serves each request on a goroutine of its own and a handler's lookups
\* and its write are separate statements on the shared *gorm.DB, so the
\* statements of another request can run between them.  A request in flight
\* has done its lookups and found no conflict; row is what it loaded.
MaxInflight == 3

Pending(kind, id, name, images, row) ==
    [kind |-> kind, id |-> id, name |-> name, images |-> images, row |-> row]

\* Faulty variant of LibraryIndexAccepts: the table has no unique index.
LibraryIndexMissing(l) == TRUE

\* the unique indexes on libraries(name) and libraries(images) accept row l
\* next to the rows of the other libraries
LibraryIndexAccepts(l) ==
    \A m \in libraries : m.id # l.id => m.name # l.name /\ m.images # l.images

\* CreateLibrary up to the end of its two lookups
BeginCreateLibrary(Names, Paths) ==
    \E name \in Names, images \in Paths :
        /\ Cardinality(inflight) < MaxInflight
        /\ isValidPath(images)
        /\ ~NameTaken(name)
        /\ ~PathTaken(images)
        /\ inflight' = inflight \cup
               {Pending("CreateLibrary", 0, <<name>>, <<images>>, {})}
        /\ UNCHANGED <<libraries, albums, photos, tags, photoTags, albumPhotos,
                       dirs, files, nextId>>

\* CreateLibrary from createDirectoryIfNotExists on: h.db.Create fails on the
\* unique index, and then the directory is removed again
FinishCreateLibrary ==
    \E r \in inflight :
        /\ r.kind = "CreateLibrary"
        /\ LET library == [id |-> nextId.library, name |-> r.name[1],
                           images |-> r.images[1]]
               dir == DirOf(library.images)
               made == MkdirAll(dirs, dir)
               undone == removeDirectoryIfExists(made, files, dir)
           IN
           IF LibraryIndexAccepts(library)
           THEN Install([Same EXCEPT !.status = 201,
                                     !.dirs = made,
                                     !.libraries = @ \cup {library},
                                     !.nextId.library = @ + 1])
           ELSE Install([Same EXCEPT !.status = 500,
                                     !.dirs = undone.dirs,
                                     !.files = undone.files])
        /\ inflight' = inflight \ {r}

\* UpdateLibrary up to the end of its lookups
BeginUpdateLibrary(Names, Paths) ==
    \E id \in LibraryIds, name \in Opt(Names), images \in Opt(Paths) :
        /\ Cardinality(inflight) < MaxInflight
        /\ UpdateLibrary(id, name, images, "none").status = 200
        /\ inflight' = inflight \cup
               {Pending("UpdateLibrary", id, name, images, LibraryById(id))}
        /\ UNCHANGED <<libraries, albums, photos, tags, photoTags, albumPhotos,
                       dirs, files, nextId>>

\* UpdateLibrary from the field assignments on: h.db.Save writes every column
\* of the row as it was loaded and changed, and fails on the unique index
FinishUpdateLibrary ==
    \E r \in inflight :
        /\ r.kind = "UpdateLibrary"
        /\ LET library == The(r.row)
               pathChanged == r.images # Absent /\ r.images[1] # library.images
               updated == [id |-> r.id,
                           name |-> IF r.name # Absent THEN r.name[1]
                                    ELSE library.name,
                           images |-> IF r.images # Absent THEN r.images[1]
                                      ELSE library.images]
               dir == DirOf(updated.images)
               made == IF pathChanged THEN MkdirAll(dirs, dir) ELSE dirs
               undone == IF pathChanged
                         THEN removeDirectoryIfExists(made, files, dir)
                         ELSE [dirs |-> dirs, files |-> files]
           IN
           IF LibraryIndexAccepts(updated)
           THEN Install([Same EXCEPT !.status = 200,
                                     !.dirs = made,
                                     !.libraries = (@ \ LibraryById(r.id))
                                                       \cup {updated}])
           ELSE Install([Same EXCEPT !.status = 500,
                                     !.dirs = undone.dirs,
                                     !.files = undone.files])
        /\ inflight' = inflight \ {r}

\* Faulty variant of TagIndexAccepts: the table has no unique index.
TagIndexMissing(t) == TRUE

\* the unique index on tags(name) accepts row t next to the other tags
TagIndexAccepts(t) == \A u \in tags : u.id # t.id => u.name # t.name

\* CreateTag up to the end of its lookup
BeginCreateTag ==
    \E name \in TagNames :
        /\ Cardinality(inflight) < MaxInflight
        /\ CreateTag(name, NoColor, "none").status = 201
        /\ inflight' = inflight \cup {Pending("CreateTag", 0, <<name>>, Absent, {})}
        /\ UNCHANGED <<libraries, albums, photos, tags, photoTags, albumPhotos,
                       dirs, files, nextId>>

\* CreateTag: h.db.Create(&tag)
FinishCreateTag ==
    \E r \in inflight :
        /\ r.kind = "CreateTag"
        /\ LET tag == [id |-> nextId.tag, name |-> r.name[1]] IN
           IF TagIndexAccepts(tag)
           THEN Install([Same EXCEPT !.status = 201,
                                     !.tags = @ \cup {tag},
                                     !.nextId.tag = @ + 1])
           ELSE Install(Reject(500))
        /\ inflight' = inflight \ {r}

\* UpdateTag up to the end of its lookups
BeginUpdateTag ==
    \E id \in TagIds, name \in TagNames :
        /\ Cardinality(inflight) < MaxInflight
        /\ UpdateTag(id, name, NoColor, "none").status = 200
        /\ inflight' = inflight \cup
               {Pending("UpdateTag", id, <<name>>, Absent, TagById(id))}
        /\ UNCHANGED <<libraries, albums, photos, tags, photoTags, albumPhotos,
                       dirs, files, nextId>>

\* UpdateTag: h.db.Save(&tag)
FinishUpdateTag ==
    \E r \in inflight :
        /\ r.kind = "UpdateTag"
        /\ LET updated == [The(r.row) EXCEPT !.name = r.name[1]] IN
           IF TagIndexAccepts(updated)
           THEN Install([Same EXCEPT !.status = 200,
                                     !.tags = (@ \ TagById(r.id)) \cup {updated}])
           ELSE Install(Reject(500))
        /\ inflight' = inflight \ {r}

\* UploadPhoto up to the insert of the Photo row; the tag names are still to
\* be handled, one addTagToPhoto call each
BeginUploadPhoto(Lists) ==
    \E libraryID \in LibraryIds, tagNames \in Lists :
        LET o == UploadPhoto(libraryID, FileOK, "", <<>>, "none") IN
        /\ Cardinality(inflight) < MaxInflight
        /\ tagNames # <<>>
        /\ o.status = 201
        /\ Install(o)
        /\ inflight' = inflight \cup
               {Pending("addTagToPhoto", nextId.photo, tagNames, Absent, {})}

\* addTagToPhoto: h.db.Where("name = ?", tagName).First(&tag)
UploadFindTag ==
    \E r \in inflight :
        /\ r.kind = "addTagToPhoto"
        /\ inflight' = (inflight \ {r}) \cup
               {Pending("addTagToPhoto found", r.id, r.name, Absent,
                        {t \in tags : t.name = Head(r.name)})}
        /\ UNCHANGED <<libraries, albums, photos, tags, photoTags, albumPhotos,
                       dirs, files, nextId>>

\* addTagToPhoto after the lookup: h.db.Create(&tag) when none was found (an
\* error ends the call), then h.db.Create(&photoTag); UploadPhoto drops the
\* error and goes on to the next name
UploadCreateTag ==
    \E r \in inflight :
        /\ r.kind = "addTagToPhoto found"
        /\ LET tag == [id |-> nextId.tag, name |-> Head(r.name)] IN
           IF r.row # {}
           THEN Install([Same EXCEPT !.status = 201,
                            !.photoTags = @ \cup {[photo_id |-> r.id,
                                                   tag_id |-> The(r.row).id]}])
           ELSE IF TagIndexAccepts(tag)
           THEN Install([Same EXCEPT !.status = 201,
                            !.tags = @ \cup {tag},
                            !.photoTags = @ \cup {[photo_id |-> r.id,
                                                   tag_id |-> tag.id]},
                            !.nextId.tag = @ + 1])
           ELSE Install(Reject(201))
        /\ inflight' = (inflight \ {r}) \cup
               (IF Tail(r.name) = <<>> THEN {}
                ELSE {Pending("addTagToPhoto", r.id, Tail(r.name), Absent, {})})

\* CreateAlbum up to the end of "Verify library exists"
BeginCreateAlbum(Names) ==
    \E name \in Names, libraryID \in LibraryIds :
        /\ Cardinality(inflight) < MaxInflight
        /\ LibraryById(libraryID) # {}
        /\ inflight' = inflight \cup
               {Pending("CreateAlbum", libraryID, <<name>>, Absent, {})}
        /\ UNCHANGED <<libraries, albums, photos, tags, photoTags, albumPhotos,
                       dirs, files, nextId>>

\* CreateAlbum from h.db.Create(&album) on: the store does not look the
\* library up again
FinishCreateAlbum ==
    \E r \in inflight :
        /\ r.kind = "CreateAlbum"
        /\ Install([Same EXCEPT !.status = 201,
                                !.albums = @ \cup {[id |-> nextId.album,
                                                    name |-> r.name[1],
                                                    library_id |-> r.id]},
                                !.nextId.album = @ + 1])
        /\ inflight' = inflight \ {r}

\* UploadPhoto up to the end of "Verify library exists", with a file that
\* passes the checks that follow
BeginUploadFile ==
    \E libraryID \in LibraryIds :
        /\ Cardinality(inflight) < MaxInflight
        /\ LibraryById(libraryID) # {}
        /\ inflight' = inflight \cup
               {Pending("UploadPhoto", libraryID, Absent, Absent,
                        LibraryById(libraryID))}
        /\ UNCHANGED <<libraries, albums, photos, tags, photoTags, albumPhotos,
                       dirs, files, nextId>>

\* UploadPhoto from os.MkdirAll(library.Images) on, with the Library row as
\* it was read: the directory is made, the file written, the row inserted
FinishUploadFile ==
    \E r \in inflight :
        /\ r.kind = "UploadPhoto"
        /\ LET library == The(r.row)
               filePath == JoinPath(library.images, generateUniqueFilename)
           IN Install([Same EXCEPT !.status = 201,
                          !.dirs = MkdirAll(dirs, filePath.dir),
                          !.files = @ \cup {filePath},
                          !.photos = @ \cup {[id |-> nextId.photo,
                                              library_id |-> r.id,
                                              filename |-> generateUniqueFilename,
                                              file_path |-> filePath,
                                              rating |-> Absent]},
                          !.nextId.photo = @ + 1])
        /\ inflight' = inflight \ {r}

\* CopyPhoto up to the end of "Verify target library exists"; the request
\* holds the source row, its tags and the target row as they were read
BeginCopyPhoto ==
    \E sourceID \in PhotoIds, libraryID \in LibraryIds :
        /\ Cardinality(inflight) < MaxInflight
        /\ PhotoById(sourceID) # {}
        /\ LibraryById(libraryID) # {}
        /\ inflight' = inflight \cup
               {Pending("CopyPhoto", sourceID, <<The(PhotoById(sourceID))>>,
                        <<PhotoTagsOf(sourceID)>>, LibraryById(libraryID))}
        /\ UNCHANGED <<libraries, albums, photos, tags, photoTags, albumPhotos,
                       dirs, files, nextId>>

\* CopyPhoto from os.Stat(sourcePhoto.FilePath) on
FinishCopyPhoto ==
    \E r \in inflight :
        /\ r.kind = "CopyPhoto"
        /\ LET sourcePhoto == r.name[1]
               targetLibrary == The(r.row)
               newFilename == generateUniqueFilename
               newFilePath == JoinPath(targetLibrary.images, newFilename)
               newPhoto == CopyRow(sourcePhoto, targetLibrary.id, newFilename,
                                   newFilePath)
           IN
           IF sourcePhoto.file_path \notin files THEN Install(Reject(404))
           ELSE Install([Same EXCEPT !.status = 201,
                            !.dirs = MkdirAll(dirs, newFilePath.dir),
                            !.files = @ \cup {newFilePath},
                            !.photos = @ \cup {newPhoto},
                            !.photoTags = @ \cup CopyTags(newPhoto.id, r.images[1]),
                            !.nextId.photo = @ + 1])
        /\ inflight' = inflight \ {r}

\* the requests of one kind that are told apart while they are in flight
RequestNumbers == {1, 2}

\* AddTagToPhoto up to the end of its three lookups: the tag and the photo
\* are found and no photo_tags row of the pair is
BeginAddTagToPhoto ==
    \E n \in RequestNumbers, id \in TagIds, photoID \in PhotoIds :
        /\ \A r \in inflight : r.images # <<n>>
        /\ TagById(id) # {}
        /\ PhotoById(photoID) # {}
        /\ ~TagOnPhoto(id, photoID)
        /\ inflight' = inflight \cup
               {Pending("AddTagToPhoto", id, <<photoID>>, <<n>>, {})}
        /\ UNCHANGED <<libraries, albums, photos, tags, photoTags, albumPhotos,
                       dirs, files, nextId>>

\* AddTagToPhoto from h.db.Create(&photoTag) on; the request stays in the
\* set with the status it was answered
FinishAddTagToPhoto ==
    \E r \in inflight :
        /\ r.kind = "AddTagToPhoto"
        /\ LET o == IF PhotoTagKeyTaken(r.id, r.name[1]) THEN Reject(500)
                    ELSE [Same EXCEPT !.status = 201,
                              !.photoTags = @ \cup {[photo_id |-> r.name[1],
                                                     tag_id |-> r.id]}]
           IN /\ Install(o)
              /\ inflight' = (inflight \ {r}) \cup
                     {Pending("AddTagToPhoto answered", r.id, r.name, r.images,
                              {o.status})}

\* ------------------------------------------------------- specifications
\* Library, photo and file-area requests, with every path, name and fault.
Next ==
    \/ PostLibraries(LibNames, PathInputs, CreateLibraryFaults)
    \/ PutLibrary(LibNames, PathInputs, UpdateLibraryFaults)
    \/ DeleteLibraryReq(DeleteLibraryFaults)
    \/ PostPhotosUpload({FileOK}, {""}, {<<>>}, UploadPhotoFaults)
    \/ PostPhotoCopy(CopyPhotoFaults)
    \/ DeletePhotoReq(DeletePhotoFaults)
    \/ GetRequests

Spec == Init /\ [][Next]_vars

\* The same requests when no file-area call and no store call fails.
NextQuiet ==
    \/ PostLibraries(LibNames, PathInputs, NoFault)
    \/ PutLibrary(LibNames, PathInputs, NoFault)
    \/ DeleteLibraryReq(NoFault)
    \/ PostPhotosUpload({FileOK}, {""}, {<<>>}, NoFault)
    \/ PostPhotoCopy(NoFault)
    \/ DeletePhotoReq(NoFault)

SpecQuiet == Init /\ [][NextQuiet]_vars

\* Photos with their tags and albums, in two libraries of fixed name and path;
\* no call fails except the os.Remove of Delete Photo.
NextAssoc ==
    \/ PostLibrariesFixed
    \/ DeleteLibraryReq(NoFault)
    \/ PostPhotosUpload({FileOK}, {""}, TagLists, NoFault)
    \/ PostPhotoCopy(NoFault)
    \/ DeletePhotoReq({"none", "remove"})
    \/ PostAlbums({"x"}, NoFault)
    \/ PostAlbumPhotos(NoFault)
    \/ PostTags(NoFault)
    \/ DeleteTagReq(NoFault)
    \/ PostTagPhotos(NoFault)
    \/ DeleteTagPhoto(NoFault)

SpecAssoc == Init /\ [][NextAssoc]_vars

\* Every route that writes a row, Copy Photo left out, on at most OneTag tag
\* and OnePhoto photo and with few request values.
OneTag == 1
OnePhoto == 1

NextAll ==
    /\ \/ PostLibrariesFixed
       \/ PutLibrary({"n2"}, {PathB}, NoFault)
       \/ DeleteLibraryReq(NoFault)
       \/ PostAlbums({"x"}, NoFault)
       \/ PutAlbum({"y"}, NoFault)
       \/ DeleteAlbumReq(NoFault)
       \/ PostAlbumPhotos(NoFault)
       \/ DeleteAlbumPhoto(NoFault)
       \/ PutAlbumPhotoOrder(NoFault)
       \/ PostPhotosUpload({FileOK}, {"", "3"}, {<<>>, <<"t1">>}, NoFault)
       \/ PutPhoto({5}, NoFault)
       \/ DeletePhotoReq(NoFault)
       \/ PostTags(NoFault)
       \/ PutTag(NoFault)
       \/ DeleteTagReq(NoFault)
       \/ PostTagPhotos(NoFault)
       \/ DeleteTagPhoto(NoFault)
    /\ nextId'.tag <= OneTag + 1
    /\ nextId'.photo <= OnePhoto + 1

SpecAll == Init /\ [][NextAll]_vars

\* Create Library and Update Library requests whose statements interleave.
NextLibraryRace ==
    \/ BeginCreateLibrary(LibNames, {PathA, PathB})
    \/ FinishCreateLibrary
    \/ BeginUpdateLibrary(LibNames, {PathA, PathB})
    \/ FinishUpdateLibrary

SpecLibraryRace == Init /\ [][NextLibraryRace]_vars

\* The requests that write a rating, with every form of the rating.
NextRating ==
    \/ PostLibrariesFixed
    \/ PostPhotosUpload({FileOK}, RatingForms, {<<>>}, NoFault)
    \/ PutPhoto(RatingValues, NoFault)
    \/ PostPhotoCopy(NoFault)
    \/ DeletePhotoReq(NoFault)

SpecRating == Init /\ [][NextRating]_vars

\* Create Tag, Update Tag and Upload Photo requests whose statements
\* interleave, on one library.
NextTagRace ==
    \/ PostLibraries({"n1"}, {PathA}, NoFault)
    \/ BeginCreateTag
    \/ FinishCreateTag
    \/ BeginUpdateTag
    \/ FinishUpdateTag
    \/ BeginUploadPhoto(TagLists)
    \/ UploadFindTag
    \/ UploadCreateTag

SpecTagRace == Init /\ [][NextTagRace]_vars

\* uploads with and without a rating and a tag, deletions, and the listing
NextList ==
    \/ PostLibrariesFixed
    \/ PostPhotosUpload({FileOK}, {"", "3"}, {<<>>, <<"t1">>}, NoFault)
    \/ DeletePhotoReq(NoFault)
    \/ GetPhotosReq({"", "2"}, {"", "1", "101"}, NoFault)

SpecList == Init /\ [][NextList]_vars

\* uploads with tag names in which a call of addTagToPhoto may fail
NextTagFault ==
    \/ PostLibrariesFixed
    \/ PostPhotosUpload({FileOK}, {""}, {<<"t1">>, <<"t1", "t2">>, <<"t2", "t1">>},
                        {"none"} \cup TagFaults)
    \/ DeletePhotoReq(NoFault)

SpecTagFault == Init /\ [][NextTagFault]_vars

\* Delete Library between the lookup and the insert of a request that names
\* the library
NextDeleteRace ==
    \/ PostLibrariesFixed
    \/ DeleteLibraryReq(NoFault)
    \/ BeginCreateAlbum({"x"})
    \/ FinishCreateAlbum
    \/ BeginUploadFile
    \/ FinishUploadFile
    \/ BeginCopyPhoto
    \/ FinishCopyPhoto

SpecDeleteRace == Init /\ [][NextDeleteRace]_vars

\* two Add Tag to Photo requests between each other's lookup and insert
NextPhotoTagRace ==
    \/ PostLibraries({"n1"}, {PathA}, NoFault)
    \/ PostPhotosUpload({FileOK}, {""}, {<<>>}, NoFault)
    \/ PostTags(NoFault)
    \/ BeginAddTagToPhoto
    \/ FinishAddTagToPhoto

SpecPhotoTagRace == Init /\ [][NextPhotoTagRace]_vars

\* ---------------------------------------------------------------- claims
\* rows of r (photo_tags or album_photos) that reference the photo
RowsOfPhoto(r, photoID) == {x \in r : x.photo_id = photoID}

\* the tag ids joined to the photo in the photo_tags rows r
TagIdsOf(r, photoID) == {x.tag_id : x \in RowsOfPhoto(r, photoID)}

\* the files below directory d
FilesUnder(fs, d) == {f \in fs : IsPrefix(d, f.dir)}

\* C1: after Delete Library succeeds, no Photo row and no Album row of that
\* library remains, and no photo_tags or album_photos row remains that
\* references a photo or an album that belonged to it.
CascadeCompleteness ==
    \A id \in LibraryIds :
        LET o == DeleteLibrary(id, "none")
            itsPhotos == {p.id : p \in {q \in photos : q.library_id = id}}
            itsAlbums == {a.id : a \in {b \in albums : b.library_id = id}}
        IN
        (LibraryById(id) # {} /\ o.status = 200) =>
            /\ \A p \in o.photos : p.library_id # id
            /\ \A a \in o.albums : a.library_id # id
            /\ \A pt \in o.photoTags : pt.photo_id \notin itsPhotos
            /\ \A ap \in o.albumPhotos :
                   ap.photo_id \notin itsPhotos /\ ap.album_id \notin itsAlbums

\* C2: when no file-area call and no store call has failed, every Photo row
\* has a file at its file_path.
EveryPhotoHasFile == \A p \in photos : p.file_path \in files

\* C3: Create Library that passes path validation and names an existing
\* library's name or an existing library's path is answered 409, inserts no
\* Library row and creates no directory.
DuplicateLibraryRejected ==
    \A name \in LibNames, images \in PathInputs, fault \in CreateLibraryFaults :
        LET o == CreateLibrary(name, images, fault) IN
        ( /\ isValidPath(images)
          /\ \/ \E l \in libraries : l.name = name
             \/ \E l \in libraries : l.images = images )
        => /\ o.status = 409
           /\ o.libraries = libraries
           /\ o.dirs = dirs
           /\ o.files = files

\* a library exists; a request with its name and a new path whose directory
\* does not exist, and a request with its path and a new name, are both
\* answered 409
DuplicateLibraryRejectedWitness ==
    \E l \in libraries, name \in LibNames, images \in PathInputs :
        /\ name # l.name
        /\ images # l.images
        /\ isValidPath(images)
        /\ DirOf(images) \notin dirs
        /\ CreateLibrary(l.name, images, "none").status = 409
        /\ CreateLibrary(name, l.images, "none").status = 409

\* C4: Add Photo to Album for an existing photo and an existing album of
\* different libraries is answered 400 (not 409) and inserts no album_photos
\* row; every album_photos row whose photo and album both exist links a photo
\* and an album of the same library.
CrossLibraryRejected ==
    /\ \A id \in AlbumIds, photoID \in PhotoIds, order \in OrderInputs,
          fault \in InsertFaults :
           LET o == AddPhotoToAlbum(id, photoID, order, fault) IN
           ( /\ AlbumById(id) # {}
             /\ PhotoById(photoID) # {}
             /\ The(PhotoById(photoID)).library_id # The(AlbumById(id)).library_id )
           => o.status = 400 /\ o.albumPhotos = albumPhotos
    /\ \A ap \in albumPhotos :
           \A p \in PhotoById(ap.photo_id), a \in AlbumById(ap.album_id) :
               p.library_id = a.library_id

\* an album holds a photo of its library and a photo of the other library is
\* refused with 400
CrossLibraryRejectedWitness ==
    \E a \in albums, p \in photos, q \in photos :
        /\ p.library_id = a.library_id
        /\ [album_id |-> a.id, photo_id |-> p.id, order |-> 1] \in albumPhotos
        /\ q.library_id # a.library_id
        /\ AddPhotoToAlbum(a.id, q.id, <<0>>, "none").status = 400

\* C5: when the insert of the Photo row fails after the file was written,
\* Upload Photo answers 500 and leaves neither a Photo row nor a file of that
\* upload.
UploadAtomicity ==
    \A libraryID \in LibraryIds, tagNames \in TagLists :
        LET o == UploadPhoto(libraryID, FileOK, "", tagNames, "insert") IN
        LibraryById(libraryID) # {} =>
            /\ o.status = 500
            /\ o.photos = photos
            /\ UploadFilePath(libraryID) \notin o.files
            /\ \A p \in o.photos : p.file_path # UploadFilePath(libraryID)

\* an upload into a library that already holds a photo and its file fails at
\* the insert
UploadAtomicityWitness ==
    \E l \in libraries, p \in photos :
        /\ p.library_id = l.id
        /\ p.file_path \in files
        /\ UploadPhoto(l.id, FileOK, "", <<>>, "insert").status = 500
        /\ UploadPhoto(l.id, FileOK, "", <<>>, "insert").files = files

\* C6: a Copy Photo in which every call succeeds adds exactly one Photo row,
\* with a new id, a new stored filename and the target library, and leaves
\* the source's row, its photo_tags and album_photos rows and its file as
\* they were.
CopyIndependence ==
    \A sourceID \in PhotoIds, libraryID \in LibraryIds :
        LET o == CopyPhoto(sourceID, libraryID, "none")
            added == o.photos \ photos
        IN
        o.status = 201 =>
            /\ photos \subseteq o.photos
            /\ Cardinality(added) = 1
            /\ \A n \in added, p \in PhotoById(sourceID) :
                   /\ n.id \notin {q.id : q \in photos}
                   /\ n.filename # p.filename
                   /\ n.file_path # p.file_path
                   /\ n.library_id = libraryID
                   /\ p.file_path \in files
                   /\ p.file_path \in o.files
            /\ files \subseteq o.files
            /\ RowsOfPhoto(o.photoTags, sourceID) = RowsOfPhoto(photoTags, sourceID)
            /\ RowsOfPhoto(o.albumPhotos, sourceID) = RowsOfPhoto(albumPhotos, sourceID)

\* a photo that carries a tag and is in an album is copied into its own
\* library and into the other one
CopyIndependenceWitness ==
    \E p \in photos, l \in libraries :
        /\ l.id # p.library_id
        /\ RowsOfPhoto(photoTags, p.id) # {}
        /\ RowsOfPhoto(albumPhotos, p.id) # {}
        /\ CopyPhoto(p.id, p.library_id, "none").status = 201
        /\ CopyPhoto(p.id, l.id, "none").status = 201

\* C7: after a Copy Photo in which every call succeeds, the tags of the copy
\* are the tags of the source, in photo_tags rows of its own; Remove Tag from
\* Photo and Delete Photo applied to one photo leave the photo_tags rows of
\* every other photo as they were.
CopyTagsIndependent ==
    /\ \A sourceID \in PhotoIds, libraryID \in LibraryIds :
           LET o == CopyPhoto(sourceID, libraryID, "none") IN
           o.status = 201 =>
               \A n \in o.photos \ photos :
                   /\ n.id # sourceID
                   /\ TagIdsOf(o.photoTags, n.id) = TagIdsOf(photoTags, sourceID)
                   /\ TagIdsOf(o.photoTags, n.id) = {t.id : t \in PhotoTagsOf(sourceID)}
    /\ \A x \in PhotoIds : \A y \in PhotoIds \ {x} :
           /\ \A t \in TagIds :
                  RowsOfPhoto(RemoveTagFromPhoto(t, x, "none").photoTags, y)
                      = RowsOfPhoto(photoTags, y)
           /\ \A fault \in DeletePhotoFaults :
                  RowsOfPhoto(DeletePhoto(x, fault).photoTags, y)
                      = RowsOfPhoto(photoTags, y)

\* two photos carry the same two tags, as a source and its copy do: each can
\* be copied, lose one of the tags and be deleted
CopyTagsIndependentWitness ==
    \E p \in photos : \E q \in photos \ {p} : \E t \in tags :
        /\ Cardinality(TagIdsOf(photoTags, p.id)) = 2
        /\ TagIdsOf(photoTags, q.id) = TagIdsOf(photoTags, p.id)
        /\ t.id \in TagIdsOf(photoTags, p.id)
        /\ CopyPhoto(p.id, q.library_id, "none").status = 201
        /\ RemoveTagFromPhoto(t.id, p.id, "none").status = 200
        /\ DeletePhoto(q.id, "none").status = 200

\* C8: after a Delete Photo whose transaction committed, the Photo row is
\* gone, no photo_tags row and no album_photos row references the photo, and
\* the Tag rows and Album rows that were associated with it still exist.
DeletePhotoCascade ==
    \A id \in PhotoIds, fault \in DeletePhotoFaults \ {"commit"} :
        LET o == DeletePhoto(id, fault) IN
        o.status = 200 =>
            /\ \A p \in o.photos : p.id # id
            /\ RowsOfPhoto(o.photoTags, id) = {}
            /\ RowsOfPhoto(o.albumPhotos, id) = {}
            /\ PhotoTagsOf(id) \subseteq o.tags
            /\ \A ap \in RowsOfPhoto(albumPhotos, id) :
                   AlbumById(ap.album_id) \subseteq o.albums
            /\ o.tags = tags
            /\ o.albums = albums

\* a photo that carries a tag and is in an album is deleted
DeletePhotoCascadeWitness ==
    \E p \in photos :
        /\ PhotoTagsOf(p.id) # {}
        /\ \E ap \in RowsOfPhoto(albumPhotos, p.id) : AlbumById(ap.album_id) # {}
        /\ DeletePhoto(p.id, "none").status = 200

\* C9: Delete Photo on a photo whose file is absent, or whose file removal
\* fails, is still answered 200, and the Photo row and its photo_tags and
\* album_photos rows are gone.
DeletePhotoFileMissing ==
    \A id \in PhotoIds, fault \in {"none", "remove"} :
        LET o == DeletePhoto(id, fault) IN
        \A p \in PhotoById(id) :
            (p.file_path \notin files \/ fault = "remove") =>
                /\ o.status = 200
                /\ \A q \in o.photos : q.id # id
                /\ RowsOfPhoto(o.photoTags, id) = {}
                /\ RowsOfPhoto(o.albumPhotos, id) = {}

\* a photo with a tag whose file is no longer on disk is deleted with a
\* warning
DeletePhotoFileMissingWitness ==
    \E p \in photos :
        /\ p.file_path \notin files
        /\ RowsOfPhoto(photoTags, p.id) # {}
        /\ DeletePhoto(p.id, "none").status = 200
        /\ DeletePhoto(p.id, "none").warning

\* C10, the state after the request: Delete Library in which every call
\* succeeds leaves no directory and no file at or below the library's
\* directory, and no row of the library, of its albums or of its photos.
DeleteLibraryOutcome ==
    \A id \in LibraryIds :
        LET o == DeleteLibrary(id, "none") IN
        \A l \in LibraryById(id) :
            /\ o.status = 200
            /\ \A d \in o.dirs : ~IsPrefix(DirOf(l.images), d)
            /\ FilesUnder(o.files, DirOf(l.images)) = {}
            /\ \A m \in o.libraries : m.id # id
            /\ \A a \in o.albums : a.library_id # id
            /\ \A p \in o.photos : p.library_id # id

\* every row carries an id that was handed out
IdsHandedOut ==
    /\ \A l \in libraries : l.id < nextId.library
    /\ \A a \in albums : a.id < nextId.album
    /\ \A p \in photos : p.id < nextId.photo

\* C10, later requests: a get of a library, an album or a photo whose id was
\* handed out and whose row is gone is answered 404 after every further step.
GoneStaysGone ==
    /\ \A id \in LibraryIds :
           (id < nextId.library /\ GetLibrary(id).status = 404)
               => \A l \in libraries' : l.id # id
    /\ \A id \in AlbumIds :
           (id < nextId.album /\ GetAlbum(id).status = 404)
               => \A a \in albums' : a.id # id
    /\ \A id \in PhotoIds :
           (id < nextId.photo /\ GetPhoto(id).status = 404)
               => \A p \in photos' : p.id # id

LibraryNameAndPathUnique ==
    /\ \A l \in libraries : \A m \in libraries \ {l} :
           l.id # m.id /\ l.name # m.name /\ l.images # m.images
    /\ \A l \in libraries : \A m \in libraries \ {l} :
           /\ UpdateLibrary(l.id, <<m.name>>, Absent, "none").status = 409
           /\ UpdateLibrary(l.id, Absent, <<m.images>>, "none").status = 409
           /\ UpdateLibrary(l.id, <<m.name>>, <<m.images>>, "none").libraries
                  = libraries
    /\ \A l \in libraries :
           LET o == UpdateLibrary(l.id, <<l.name>>, <<l.images>>, "none") IN
           o.status = 200 /\ o.libraries = libraries

\* two libraries exist while a Create Library request that found its name
\* free is about to insert a name that has been taken since, and an Update
\* Library request is about to save a path that has been taken since
LibraryNameAndPathUniqueWitness ==
    /\ Cardinality(libraries) = 2
    /\ \E r \in inflight :
           r.kind = "CreateLibrary" /\ NameTaken(r.name[1])
    /\ \E r \in inflight :
           /\ r.kind = "UpdateLibrary"
           /\ r.images # Absent
           /\ \E m \in libraries : m.id # r.id /\ m.images = r.images[1]

\* C14: no two Tag rows have the same name, also when Create Tag, Update Tag
\* and Upload Photo with tag names interleave; Create Tag with a name in use
\* and Update Tag to the name of another tag are answered 409 and leave the
\* tags alone; an upload that names an existing tag adds no Tag row and
\* associates that tag with the new photo.
TagNameUnique ==
    /\ \A t \in tags : \A u \in tags \ {t} : t.id # u.id /\ t.name # u.name
    /\ \A t \in tags :
           /\ CreateTag(t.name, NoColor, "none").status = 409
           /\ CreateTag(t.name, NoColor, "none").tags = tags
           /\ \A u \in tags \ {t} :
                  /\ UpdateTag(u.id, t.name, NoColor, "none").status = 409
                  /\ UpdateTag(u.id, t.name, NoColor, "none").tags = tags
           /\ \A libraryID \in LibraryIds :
                  LET o == UploadPhoto(libraryID, FileOK, "", <<t.name>>, "none") IN
                  o.status = 201 =>
                      /\ o.tags = tags
                      /\ [photo_id |-> nextId.photo, tag_id |-> t.id] \in o.photoTags

\* two tags exist, a library can take an upload, and a Create Tag request
\* and an upload that each found their name free are about to insert a name
\* that has been taken since
TagNameUniqueWitness ==
    /\ Cardinality(tags) = 2
    /\ \E l \in libraries : UploadPhoto(l.id, FileOK, "", <<"t1">>, "none").status = 201
    /\ \E r \in inflight :
           r.kind = "CreateTag" /\ \E t \in tags : t.name = r.name[1]
    /\ \E r \in inflight :
           /\ r.kind = "addTagToPhoto found"
           /\ r.row = {}
           /\ \E t \in tags : t.name = Head(r.name)

\* P holds of the outcome of every handler for every request and fault input
EveryOutcome(P(_)) ==
    /\ \A name \in LibNames, images \in PathInputs, fault \in CreateLibraryFaults :
           P(CreateLibrary(name, images, fault))
    /\ \A id \in LibraryIds, name \in Opt(LibNames), images \in Opt(PathInputs),
          fault \in UpdateLibraryFaults :
           P(UpdateLibrary(id, name, images, fault))
    /\ \A id \in LibraryIds, fault \in DeleteLibraryFaults : P(DeleteLibrary(id, fault))
    /\ \A id \in LibraryIds : P(GetLibrary(id))
    /\ \A name \in AlbumNames, lib \in LibraryIds, fault \in InsertFaults :
           P(CreateAlbum(name, lib, fault))
    /\ \A id \in AlbumIds, name \in Opt(AlbumNames), fault \in SaveFaults :
           P(UpdateAlbum(id, name, fault))
    /\ \A id \in AlbumIds, fault \in TxFaults : P(DeleteAlbum(id, fault))
    /\ \A id \in AlbumIds : P(GetAlbum(id))
    /\ \A id \in AlbumIds, photoID \in PhotoIds, order \in OrderInputs :
           /\ \A fault \in InsertFaults : P(AddPhotoToAlbum(id, photoID, order, fault))
           /\ \A fault \in UpdateFaults : P(UpdatePhotoOrder(id, photoID, order, fault))
    /\ \A id \in AlbumIds, photoID \in PhotoIds, fault \in DeleteFaults :
           P(RemovePhotoFromAlbum(id, photoID, fault))
    /\ \A lib \in LibraryIds, file \in FileInputs, ratingStr \in RatingForms,
          tagNames \in TagLists, fault \in UploadPhotoFaults :
           P(UploadPhoto(lib, file, ratingStr, tagNames, fault))
    /\ \A id \in PhotoIds, rating \in Opt(RatingValues), fault \in UpdatePhotoFaults :
           P(UpdatePhoto(id, rating, fault))
    /\ \A id \in PhotoIds, fault \in DeletePhotoFaults : P(DeletePhoto(id, fault))
    /\ \A id \in PhotoIds, lib \in LibraryIds, fault \in CopyPhotoFaults :
           P(CopyPhoto(id, lib, fault))
    /\ \A id \in PhotoIds : P(GetPhoto(id)) /\ P(ServePhoto(id))
    /\ \A name \in TagNames, color \in ColorInputs, fault \in InsertFaults :
           P(CreateTag(name, color, fault))
    /\ \A id \in TagIds, name \in TagNames, fault \in SaveFaults :
           /\ \A color \in ColorInputs : P(UpdateTag(id, name, color, fault))
    /\ \A id \in TagIds, fault \in TxFaults : P(DeleteTag(id, fault))
    /\ \A id \in TagIds, photoID \in PhotoIds :
           /\ \A fault \in InsertFaults : P(AddTagToPhoto(id, photoID, fault))
           /\ \A fault \in DeleteFaults : P(RemoveTagFromPhoto(id, photoID, fault))

\* the outcome leaves every row, directory and file as it is
Untouched(o) ==
    /\ o.libraries = libraries
    /\ o.albums = albums
    /\ o.photos = photos
    /\ o.tags = tags
    /\ o.photoTags = photoTags
    /\ o.albumPhotos = albumPhotos
    /\ o.dirs = dirs
    /\ o.files = files

\* a rejection changed nothing
NoEffectWhenRejected(o) == o.status \in {400, 404, 409} => Untouched(o)

\* C12: a request answered 400, 404 or 409 leaves all Library, Album, Photo,
\* Tag, photo_tags and album_photos rows and all directories and files as
\* they were before it.
RejectionsHaveNoEffect == EveryOutcome(NoEffectWhenRejected)

\* with a library, a photo with its file, a tag and an album of another
\* library in place, requests are answered 400 (cross-library add, upload
\* without a file), 404 (tag not on the photo) and 409 (library name taken)
RejectionsHaveNoEffectWitness ==
    \E l \in libraries, p \in photos, a \in albums, t \in tags :
        /\ p.library_id = l.id
        /\ p.file_path \in files
        /\ AddPhotoToAlbum(a.id, p.id, Absent, "none").status = 400
        /\ UploadPhoto(l.id, UploadFile(FALSE, "image/png", FALSE, TRUE), "", <<>>,
                       "none").status = 400
        /\ RemoveTagFromPhoto(t.id, p.id, "none").status = 404
        /\ CreateLibrary(l.name, PathB, "none").status = 409

\* every Photo and Album row that is still there has the library_id it had
LibraryIdKept(o) ==
    /\ \A p \in photos, q \in o.photos : q.id = p.id => q.library_id = p.library_id
    /\ \A a \in albums, b \in o.albums : b.id = a.id => b.library_id = a.library_id

\* C15: no request, whatever its handler, its values and the call that fails
\* in it, changes the library_id of a Photo row or of an Album row.
LibraryIdNeverChanges == EveryOutcome(LibraryIdKept)

\* a photo with a tag and an album of its library, in one of two libraries:
\* the photo and the album are updated, the photo is copied to the other
\* library and added to the album, and the library is moved
LibraryIdNeverChangesWitness ==
    \E l \in libraries, m \in libraries, p \in photos, a \in albums :
        /\ l.id # m.id
        /\ p.library_id = l.id
        /\ a.library_id = l.id
        /\ RowsOfPhoto(photoTags, p.id) # {}
        /\ UpdatePhoto(p.id, <<5>>, "none").status = 200
        /\ UpdateAlbum(a.id, <<"y">>, "none").status = 200
        /\ CopyPhoto(p.id, m.id, "none").status = 201
        /\ AddPhotoToAlbum(a.id, p.id, Absent, "none").status = 201
        /\ UpdateLibrary(l.id, Absent, <<PathB>>, "none").status = 200

\* C16: Update Photo with a rating below 0 or above 5 is answered 400,
\* whatever else fails, and leaves the Photo rows as they are; with a rating
\* in 0..5, and no failing call, it is answered 200 and the photo's row holds
\* that rating, nothing else in it changed.
UpdatePhotoRating ==
    \A p \in photos, rating \in RatingValues :
        IF rating >= 0 /\ rating <= 5
        THEN LET o == UpdatePhoto(p.id, <<rating>>, "none") IN
             /\ o.status = 200
             /\ o.photos = (photos \ {p}) \cup {[p EXCEPT !.rating = <<rating>>]}
        ELSE \A fault \in UpdatePhotoFaults :
                 LET o == UpdatePhoto(p.id, <<rating>>, fault) IN
                 o.status = 400 /\ o.photos = photos

\* a photo whose rating an earlier Update Photo set to 5 is sent the ratings
\* 6 and -1, which are refused, and 0, which is stored
UpdatePhotoRatingWitness ==
    \E p \in photos :
        /\ p.rating = <<5>>
        /\ UpdatePhoto(p.id, <<6>>, "none").status = 400
        /\ UpdatePhoto(p.id, <<-1>>, "none").status = 400
        /\ UpdatePhoto(p.id, <<0>>, "none").status = 200
        /\ \E q \in UpdatePhoto(p.id, <<0>>, "none").photos :
               q.id = p.id /\ q.rating = <<0>>

\* C17: an upload whose rating field is not the text of an integer in 0..5
\* is answered 201 and its Photo row has no rating, one whose field is such
\* a text stores that integer; and every Photo row, after any sequence of
\* Upload Photo, Update Photo and Copy Photo, has no rating or one in 0..5.
RatingNullOrInRange ==
    /\ \A p \in photos : p.rating = Absent \/ p.rating[1] \in 0..5
    /\ \A l \in libraries, ratingStr \in RatingForms :
           LET o == UploadPhoto(l.id, FileOK, ratingStr, <<>>, "none") IN
           /\ o.status = 201
           /\ Cardinality(o.photos \ photos) = 1
           /\ \A n \in o.photos \ photos :
                  n.rating = CASE ratingStr = "0" -> <<0>>
                               [] ratingStr = "3" -> <<3>>
                               [] OTHER -> Absent

\* one photo has the rating 5, which only Update Photo writes, another has
\* none, and a library takes uploads whose rating field does not count
RatingNullOrInRangeWitness ==
    \E p \in photos, q \in photos, l \in libraries :
        /\ p.rating = <<5>>
        /\ q.rating = Absent
        /\ UploadPhoto(l.id, FileOK, "6", <<>>, "none").status = 201
        /\ UploadPhoto(l.id, FileOK, "x", <<>>, "none").status = 201

\* C18: Add Photo to Album for a photo that is in the album already is
\* answered 409 and leaves the album_photos rows, the order of that one
\* included, as they are; for a photo of the album's library that is not in
\* it, and no failing call, it is answered 201 and adds the one row of the
\* pair, with the order of the request or 0 when the request has none; and
\* no two album_photos rows are of the same album and photo.
AddPhotoToAlbumOnce ==
    /\ \A x \in albumPhotos, y \in albumPhotos :
           x.album_id = y.album_id /\ x.photo_id = y.photo_id => x = y
    /\ \A a \in albums, p \in photos, order \in OrderInputs :
           LET existing == {ap \in albumPhotos :
                               ap.album_id = a.id /\ ap.photo_id = p.id}
               o == AddPhotoToAlbum(a.id, p.id, order, "none")
           IN
           IF existing # {}
           THEN \A fault \in InsertFaults :
                    /\ AddPhotoToAlbum(a.id, p.id, order, fault).status = 409
                    /\ AddPhotoToAlbum(a.id, p.id, order, fault).albumPhotos
                           = albumPhotos
           ELSE p.library_id = a.library_id =>
                    /\ o.status = 201
                    /\ albumPhotos \subseteq o.albumPhotos
                    /\ o.albumPhotos \ albumPhotos =
                           {[album_id |-> a.id, photo_id |-> p.id,
                             order |-> IF order = Absent THEN 0 ELSE order[1]]}

\* a photo is in an album at order 1 and is added again, with another order
\* and with none
AddPhotoToAlbumOnceWitness ==
    \E ap \in albumPhotos :
        /\ ap.order = 1
        /\ AddPhotoToAlbum(ap.album_id, ap.photo_id, <<0>>, "none").status = 409
        /\ AddPhotoToAlbum(ap.album_id, ap.photo_id, Absent, "none").status = 409

\* Add Tag to Photo for a tag the photo has already is answered 409 and
\* leaves the photo_tags rows as they are; for a tag the photo does not have,
\* and no failing call, it is answered 201 and adds the one row of the pair
AddTagToPhotoOutcome ==
    \A t \in tags, p \in photos :
        LET pair == [photo_id |-> p.id, tag_id |-> t.id]
            o == AddTagToPhoto(t.id, p.id, "none")
        IN
        IF pair \in photoTags
        THEN \A fault \in InsertFaults :
                 /\ AddTagToPhoto(t.id, p.id, fault).status = 409
                 /\ AddTagToPhoto(t.id, p.id, fault).photoTags = photoTags
        ELSE /\ o.status = 201
             /\ o.photoTags = photoTags \cup {pair}
             /\ Cardinality(o.photoTags) = Cardinality(photoTags) + 1

\* every photo_tags row a step writes, be the step an upload with tag names,
\* a copy or an Add Tag to Photo, is one that Add Tag to Photo refuses from
\* then on
AddTagToPhotoRefusesNewRows ==
    \A pt \in photoTags' \ photoTags :
        /\ (AddTagToPhoto(pt.tag_id, pt.photo_id, "none").status)' = 409
        /\ (AddTagToPhoto(pt.tag_id, pt.photo_id, "none").photoTags)' = photoTags'

DeleteAlbumKeepsPhotos ==
    \A a \in albums :
        LET o == DeleteAlbum(a.id, "none")
            members == {ap.photo_id : ap \in {x \in albumPhotos : x.album_id = a.id}}
        IN
        /\ o.status = 200
        /\ \A b \in o.albums : b.id # a.id
        /\ o.albums = albums \ {a}
        /\ \A ap \in o.albumPhotos : ap.album_id # a.id
        /\ {ap \in albumPhotos : ap.album_id # a.id} \subseteq o.albumPhotos
        /\ \A id \in members :
               /\ PhotoById(id) \subseteq o.photos
               /\ RowsOfPhoto(o.photoTags, id) = RowsOfPhoto(photoTags, id)
               /\ \A p \in PhotoById(id) : p.file_path \in files => p.file_path \in o.files
        /\ o.photos = photos
        /\ o.photoTags = photoTags
        /\ o.tags = tags
        /\ o.files = files
        /\ o.dirs = dirs

\* an album that holds a photo with a tag and a file on disk is deleted
DeleteAlbumKeepsPhotosWitness ==
    \E a \in albums, p \in photos :
        /\ \E ap \in albumPhotos : ap.album_id = a.id /\ ap.photo_id = p.id
        /\ RowsOfPhoto(photoTags, p.id) # {}
        /\ p.file_path \in files
        /\ DeleteAlbum(a.id, "none").status = 200

\* C21: after a Delete Tag in which every call succeeded the Tag row is gone
\* and no photo_tags row is of that tag, while the Photo rows, of the photos
\* that carried the tag in particular, their files, their photo_tags rows of
\* other tags and their album_photos rows are as they were.
DeleteTagKeepsPhotos ==
    \A t \in tags :
        LET o == DeleteTag(t.id, "none")
            carriers == {pt.photo_id : pt \in {x \in photoTags : x.tag_id = t.id}}
        IN
        /\ o.status = 200
        /\ \A u \in o.tags : u.id # t.id
        /\ o.tags = tags \ {t}
        /\ \A pt \in o.photoTags : pt.tag_id # t.id
        /\ \A id \in carriers :
               /\ PhotoById(id) \subseteq o.photos
               /\ {pt \in RowsOfPhoto(o.photoTags, id) : pt.tag_id # t.id}
                      = {pt \in RowsOfPhoto(photoTags, id) : pt.tag_id # t.id}
               /\ \A p \in PhotoById(id) : p.file_path \in files => p.file_path \in o.files
        /\ {pt \in photoTags : pt.tag_id # t.id} = o.photoTags
        /\ o.photos = photos
        /\ o.albumPhotos = albumPhotos
        /\ o.albums = albums
        /\ o.files = files
        /\ o.dirs = dirs

\* a tag carried by two photos, one of which has another tag as well and
\* its file on disk, is deleted
DeleteTagKeepsPhotosWitness ==
    \E t \in tags : \E u \in tags \ {t} : \E p \in photos : \E q \in photos \ {p} :
        /\ [photo_id |-> p.id, tag_id |-> t.id] \in photoTags
        /\ [photo_id |-> q.id, tag_id |-> t.id] \in photoTags
        /\ [photo_id |-> p.id, tag_id |-> u.id] \in photoTags
        /\ p.file_path \in files
        /\ DeleteTag(t.id, "none").status = 200

\* the names an upload form asks for: the trimmed pieces that are not empty
NamesOf(pieces) == {TrimSpace(pieces[i]) : i \in 1..Len(pieces)} \ {""}

\* C22: an Upload Photo in which every call succeeds leaves, for every
\* non-empty trimmed name of its tag list, exactly one Tag row of that name
\* (the one there was, or one new row) and exactly one photo_tags row from
\* the new photo to it; no other Tag row and no other photo_tags row is
\* added, so empty pieces and repeated names add nothing.
UploadTagsOncePerName ==
    \A l \in libraries, pieces \in TagForms :
        LET o == UploadPhoto(l.id, FileOK, "", pieces, "none")
            new == nextId.photo
            named == {t \in o.tags : t.name \in NamesOf(pieces)}
        IN
        /\ o.status = 201
        /\ tags \subseteq o.tags
        /\ photoTags \subseteq o.photoTags
        /\ \A n \in NamesOf(pieces) :
               /\ Cardinality({t \in o.tags : t.name = n}) = 1
               /\ Cardinality({pt \in o.photoTags :
                       /\ pt.photo_id = new
                       /\ \E t \in o.tags : t.id = pt.tag_id /\ t.name = n}) = 1
        /\ \A t \in o.tags \ tags :
               t.name \in NamesOf(pieces) /\ \A u \in tags : u.name # t.name
        /\ o.photoTags \ photoTags =
               {[photo_id |-> new, tag_id |-> t.id] : t \in named}
        /\ Cardinality(o.tags \ tags) =
               Cardinality(NamesOf(pieces) \ {t.name : t \in tags})

\* a library takes an upload whose list names the existing tag t1 twice,
\* once with a blank, and the missing tag t2, next to an empty piece
UploadTagsOncePerNameWitness ==
    \E l \in libraries, t \in tags :
        /\ t.name = "t1"
        /\ \A u \in tags : u.name # "t2"
        /\ RowsOfPhoto(photoTags, 1) # {}
        /\ UploadPhoto(l.id, FileOK, "", <<" ", "t1", "t2", "t1">>, "none").status = 201
        /\ UploadPhoto(l.id, FileOK, "", <<" t1", "t1">>, "none").status = 201

\* C23: the photo_count that Tag stats reports for a tag is the number of
\* Photo rows that have the tag, and is the sum of the photo counts of its
\* per-library breakdown.
TagStatsCountPhotos ==
    \A t \in tags :
        LET stats == GetTagStats(t.id) IN
        /\ stats.status = 200
        /\ stats.photo_count =
               Cardinality({p \in photos :
                   [photo_id |-> p.id, tag_id |-> t.id] \in photoTags})
        /\ stats.photo_count = SumPhotoCount(stats.libraries)

\* C24: Create Tag with a color that is not empty and not '#' followed by
\* six hex digits is answered 400 and leaves the Tag rows as they are.
CreateTagColorChecked ==
    \A name \in TagNames, color \in ColorInputs, fault \in InsertFaults :
        (color # NoColor /\ ~IsHexColor(color)) =>
            /\ CreateTag(name, color, fault).status = 400
            /\ CreateTag(name, color, fault).tags = tags

\* the query strings of GET /photos the listing claims range over
EveryListing(P(_, _, _, _, _, _)) ==
    \A libraryID \in LibraryFilters, rating \in {"", "3"},
       tagName \in TagFilters, p \in PageInputs, l \in LimitInputs,
       fault \in GetPhotosFaults :
        GetPhotos(libraryID, rating, tagName, p, l, fault).status = 200 =>
            P(libraryID, rating, tagName, p, l, fault)

\* the limit is missing, no number or not positive
NoUsableLimit(l) == l = "" \/ Atoi(l) = Absent \/ Atoi(l)[1] <= 0

\* the total is the number of rows the same filters give on one page that
\* holds them all, whatever page and limit were asked for
TotalCountsAllMatching(libraryID, rating, tagName, p, l, fault) ==
    fault = "none" =>
        /\ GetPhotos(libraryID, rating, tagName, p, l, fault).total =
               Len(GetPhotos(libraryID, rating, tagName, "1", "100", fault).photos)
        /\ Len(GetPhotos(libraryID, rating, tagName, p, l, fault).photos) <=
               GetPhotos(libraryID, rating, tagName, p, l, fault).limit
        /\ (libraryID = Absent /\ rating = "" /\ tagName = "") =>
               GetPhotos(libraryID, rating, tagName, p, l, fault).total =
                   Cardinality(photos)

LimitCapped(libraryID, rating, tagName, p, l, fault) ==
    LET limit == GetPhotos(libraryID, rating, tagName, p, l, fault).limit IN
    /\ limit >= 1 /\ limit <= 100
    /\ (Atoi(l) # Absent /\ Atoi(l)[1] > 100) => limit = 100
    /\ NoUsableLimit(l) => limit = 50
    /\ TotalCountsAllMatching(libraryID, rating, tagName, p, l, fault)

\* C25: List Photos answers with a page size in 1..100, a limit above 100 is
\* cut to 100, a missing, non-numeric or non-positive limit gives 50, and the
\* total counts all photos matching the filters whatever the page.
ListPhotosCapsLimit == EveryListing(LimitCapped)

LimitBounded(libraryID, rating, tagName, p, l, fault) ==
    LET limit == GetPhotos(libraryID, rating, tagName, p, l, fault).limit IN
    /\ limit >= 1 /\ limit <= 100
    /\ (Atoi(l) # Absent /\ Atoi(l)[1] >= 1 /\ Atoi(l)[1] <= 100) =>
           limit = Atoi(l)[1]
    /\ (Atoi(l) # Absent /\ Atoi(l)[1] > 100) => limit = 50
    /\ NoUsableLimit(l) => limit = 50
    /\ TotalCountsAllMatching(libraryID, rating, tagName, p, l, fault)

\* C25, amended: List Photos answers with a page size in 1..100; a limit in
\* 1..100 is taken as it is, a limit above 100, like a missing, non-numeric
\* or non-positive one, gives 50; the total counts all photos matching the
\* filters whatever the page.
ListPhotosBoundsLimit == EveryListing(LimitBounded)

\* two photos are stored, one of them tagged; a listing with limit 1 answers
\* one photo and total 2, a listing with limit 101 answers page size 50, and
\* the listing by the tag answers total 1
ListPhotosBoundsLimitWitness ==
    /\ Cardinality(photos) = 2
    /\ GetPhotos(Absent, "", "", "1", "1", "none").total = 2
    /\ Len(GetPhotos(Absent, "", "", "1", "1", "none").photos) = 1
    /\ Len(GetPhotos(Absent, "", "", "2", "1", "none").photos) = 1
    /\ GetPhotos(Absent, "", "", "1", "101", "none").limit = 50
    /\ GetPhotos(Absent, "", "t1", "1", "", "none").total = 1

\* C26: Update Photo Order on an associated (album, photo) pair takes any
\* integer order, 0 included: it answers 200, the row of the pair holds the
\* order and the other AlbumPhoto rows are as before; on a pair that is not
\* associated it answers 404 and no row changes.
UpdatePhotoOrderAnyInteger ==
    \A id \in AlbumIds, photoID \in PhotoIds, n \in Orders :
        LET o == UpdatePhotoOrder(id, photoID, <<n>>, "none")
            pair == {ap \in albumPhotos :
                        ap.album_id = id /\ ap.photo_id = photoID}
        IN IF pair # {}
           THEN /\ o.status = 200
                /\ \E ap \in o.albumPhotos :
                       ap.album_id = id /\ ap.photo_id = photoID /\ ap.order = n
                /\ o.albumPhotos \ {ap \in o.albumPhotos :
                                        ap.album_id = id /\ ap.photo_id = photoID}
                       = albumPhotos \ pair
                /\ Untouched([o EXCEPT !.albumPhotos = albumPhotos])
           ELSE o.status = 404 /\ Untouched(o)

\* what one Create Library request does to the rows and the directories
CreateLibraryOutcome ==
    \A name \in LibNames, images \in PathInputs, fault \in CreateLibraryFaults :
        LET o == CreateLibrary(name, images, fault)
            reachesInsert == /\ isValidPath(images)
                             /\ ~NameTaken(name)
                             /\ ~PathTaken(images)
                             /\ fault # "mkdir"
        IN /\ \A l \in o.libraries \ libraries : DirOf(l.images) \in o.dirs
           /\ o.status = 201 =>
                  \E l \in o.libraries \ libraries :
                      l.name = name /\ l.images = images
           /\ o.status # 201 => o.libraries = libraries
           /\ (reachesInsert /\ fault = "insert") =>
                  /\ o.status = 500
                  /\ DirOf(images) \notin dirs => DirOf(images) \notin o.dirs

\* a Library row that becomes visible has its directory
NewLibraryHasDirectory ==
    \A l \in libraries' :
        (\A m \in libraries : m.id # l.id) => DirOf(l.images) \in dirs'

\* C27: Create Library makes the directory before it inserts the row: a
\* Library row never becomes visible without its directory having been made,
\* and when the insert fails the answer is a failure, no row is added and the
\* directory the request made is gone again.
CreateLibraryDirectoryFirst ==
    []CreateLibraryOutcome /\ [][NewLibraryHasDirectory]_vars

\* a library was created and has its directory, and a further Create Library
\* whose insert fails leaves neither a row nor the directory it would make
CreateLibraryDirectoryFirstWitness ==
    /\ \E l \in libraries : DirOf(l.images) \in dirs
    /\ \E name \in LibNames, images \in PathInputs :
           /\ DirOf(images) \notin dirs
           /\ CreateLibrary(name, images, "insert").status = 500
           /\ DirOf(images) \notin CreateLibrary(name, images, "insert").dirs
           /\ CreateLibrary(name, images, "none").status = 201

\* what one Update Library request on library l does to the rows, the
\* directories and the files
UpdateLibraryOutcome(l, name, images, fault) ==
    LET o == UpdateLibrary(l.id, name, images, fault)
        changed == images # Absent /\ images[1] # l.images
        reachesSave == UpdateLibrary(l.id, name, images, "none").status = 200
    IN /\ (changed /\ o.status = 200) =>
              /\ DirOf(images[1]) \in o.dirs
              /\ \E m \in o.libraries : m.id = l.id /\ m.images = images[1]
       /\ o.status # 200 => o.libraries = libraries
       /\ (reachesSave /\ fault = "save") =>
              /\ o.status = 500
              /\ l \in o.libraries
              /\ (changed /\ DirOf(images[1]) \notin dirs) =>
                     DirOf(images[1]) \notin o.dirs
       /\ ~changed => o.dirs = dirs /\ o.files = files

\* C28: Update Library with a changed path makes the new directory before it
\* saves the row; when the save fails the answer is a failure, the stored row
\* is the old one and the directory the request made is gone again; an update
\* that does not change the path does nothing to directories and files.
UpdateLibraryDirectoryFirst ==
    \A l \in libraries, name \in Opt(LibNames), images \in Opt(PathInputs),
       fault \in UpdateLibraryFaults :
        UpdateLibraryOutcome(l, name, images, fault)

\* a library whose directory is gone can be given its own path again, and can
\* be moved to a path whose directory does not exist, where a failing save
\* leaves the row and does not leave the new directory
UpdateLibraryDirectoryFirstWitness ==
    \E l \in libraries, images \in PathInputs :
        /\ DirOf(l.images) \notin dirs
        /\ UpdateLibrary(l.id, Absent, <<l.images>>, "none").status = 200
        /\ images # l.images
        /\ DirOf(images) \notin dirs
        /\ UpdateLibrary(l.id, Absent, <<images>>, "save").status = 500
        /\ UpdateLibrary(l.id, Absent, <<images>>, "none").status = 200
        /\ \E m \in libraries : m.id # l.id

\* an upload that succeeds writes its file under the path the library has now
UploadUnderCurrentPath ==
    \A l \in libraries :
        LET o == UploadPhoto(l.id, FileOK, "", <<>>, "none") IN
        o.status = 201 =>
            \A p \in o.photos \ photos :
                /\ p.library_id = l.id
                /\ p.file_path.dir = DirOf(l.images)
                /\ p.file_path \in o.files

\* a step that changes the path of a library leaves the directories, the
\* files and the Photo rows as they were, and what was served is served
PathChangeKeepsFiles ==
    (\E l \in libraries, m \in libraries' : m.id = l.id /\ m.images # l.images)
    => /\ dirs \subseteq dirs'
       /\ files' = files
       /\ photos' = photos
       /\ \A p \in photos :
              ServePhoto(p.id).status = 200 => (ServePhoto(p.id).status)' = 200

\* C29: a successful Update Library that changes the path leaves the old
\* directory, its files and the file_path of the library's Photo rows as they
\* were, so the photos uploaded before are still served, and an upload after
\* the change is written under the new path.
UpdateLibraryKeepsOldFiles ==
    []UploadUnderCurrentPath /\ [][PathChangeKeepsFiles]_vars

\* a library holds a photo that was uploaded under its earlier path and is
\* still served, and a photo uploaded under the path it has now
UpdateLibraryKeepsOldFilesWitness ==
    \E l \in libraries, p \in photos, q \in photos :
        /\ p.library_id = l.id /\ q.library_id = l.id
        /\ p.file_path.dir # DirOf(l.images)
        /\ ServePhoto(p.id).status = 200
        /\ q.file_path.dir = DirOf(l.images)
        /\ q.file_path \in files

\* C30: Delete Library removes the directory only after its transaction has
\* committed: when a statement of the transaction or the commit fails, no
\* Photo, Album or Library row is deleted, the directory and its files are as
\* before and the answer is not a success.
DeleteLibraryAfterCommit ==
    \A l \in libraries, fault \in {"tx", "commit"} :
        LET o == DeleteLibrary(l.id, fault) IN
        /\ o.photos = photos
        /\ o.albums = albums
        /\ o.libraries = libraries
        /\ o.dirs = dirs
        /\ o.files = files
        /\ o.status # 200

\* C31: Delete Photo deletes the file only after its transaction has
\* committed: when a statement of the transaction or the commit fails, the
\* Photo row and its photo_tags and album_photos rows are all still there,
\* the file is not deleted and the answer is not a success.
DeletePhotoAfterCommit ==
    \A p \in photos, fault \in {"tx", "commit"} :
        LET o == DeletePhoto(p.id, fault) IN
        /\ o.photos = photos
        /\ o.photoTags = photoTags
        /\ o.albumPhotos = albumPhotos
        /\ o.files = files
        /\ o.status # 200

\* C32: when the transaction of Copy Photo fails at a statement or at the
\* commit, the answer is a failure, there is no new Photo row and no new
\* photo_tags row, and the file copied into the target directory is deleted
\* again; the answer is a success only with the new row and the associations
\* of the source committed.
CopyPhotoAllOrNothing ==
    /\ \A p \in photos, l \in libraries, fault \in {"tx", "commit"} :
           LET o == CopyPhoto(p.id, l.id, fault) IN
           p.file_path \in files =>
               /\ o.status # 201
               /\ o.photos = photos
               /\ o.photoTags = photoTags
               /\ o.files = files
    /\ \A p \in photos, l \in libraries, fault \in CopyPhotoFaults :
           LET o == CopyPhoto(p.id, l.id, fault) IN
           o.status = 201 =>
               \E q \in o.photos \ photos :
                   /\ q.library_id = l.id
                   /\ q.file_path \in o.files
                   /\ \A t \in PhotoTagsOf(p.id) :
                          [photo_id |-> q.id, tag_id |-> t.id] \in o.photoTags

\* the names of a tag list that come after the first name that is given
RECURSIVE NamesAfterFirst(_)
NamesAfterFirst(pieces) ==
    IF pieces = <<>> THEN {}
    ELSE IF TrimSpace(Head(pieces)) # "" THEN NamesOf(Tail(pieces))
    ELSE NamesAfterFirst(Tail(pieces))

\* C33: an upload in which the lookup of a tag, the insert of a tag or the
\* insert of its photo_tags row fails is not undone: the Photo row and the
\* file are there, the answer is 201, and every name after the failed one is
\* a Tag associated with the photo.
UploadSurvivesTagFailure ==
    \A l \in libraries, tagNames \in TagForms, fault \in TagFaults :
        LET o == UploadPhoto(l.id, FileOK, "", tagNames, fault) IN
        /\ o.status = 201
        /\ \E p \in o.photos \ photos :
               /\ p.library_id = l.id
               /\ p.file_path \in o.files
               /\ \A name \in NamesAfterFirst(tagNames) :
                      \E t \in o.tags :
                          /\ t.name = name
                          /\ [photo_id |-> p.id, tag_id |-> t.id] \in o.photoTags
        /\ o.photos \ photos # {} /\ photos \subseteq o.photos

\* a photo carries t2 and not t1 although both names were in its upload, the
\* handling of t1 having failed
UploadSurvivesTagFailureWitness ==
    \E p \in photos, t \in tags :
        /\ p.file_path \in files
        /\ t.name = "t2"
        /\ [photo_id |-> p.id, tag_id |-> t.id] \in photoTags
        /\ \A u \in tags : u.name = "t1" =>
               [photo_id |-> p.id, tag_id |-> u.id] \notin photoTags
        /\ UploadPhoto(p.library_id, FileOK, "", <<"t1", "t2">>,
                       "tag associate").status = 201

\* the path is empty, or normalizes to the root, to a path with a ".."
\* segment, or to a path under /etc, /sys or /proc
PathToReject(path) ==
    \/ path = EmptyPath
    \/ Clean(path) = RootPath
    \/ \E i \in 1..Len(Clean(path).segs) : Clean(path).segs[i] = ".."
    \/ /\ Clean(path).abs
       /\ Clean(path).segs # <<>>
       /\ Clean(path).segs[1] \in SensitivePrefixes

\* C34: Create Library and Update Library answer 400, make no directory and
\* change no row for every path that is empty, that normalizes to the root
\* or keeps a ".." segment, or that normalizes to a path under /etc, /sys or
\* /proc, such as "/tmp/../etc/x".
UnsafePathsRejected ==
    \A path \in PathForms :
        PathToReject(path) =>
            /\ \A name \in LibNames, fault \in CreateLibraryFaults :
                   /\ CreateLibrary(name, path, fault).status = 400
                   /\ Untouched(CreateLibrary(name, path, fault))
            /\ \A id \in LibraryIds, name \in Opt(LibNames),
                  fault \in UpdateLibraryFaults :
                   /\ UpdateLibrary(id, name, <<path>>, fault).status = 400
                   /\ Untouched(UpdateLibrary(id, name, <<path>>, fault))

\* a step of Create Library or Update Library takes away no directory and no
\* file that was there before it, and leaves every library that is stored
\* after it the directory it had
KeepsWhatWasThere ==
    /\ dirs \subseteq dirs'
    /\ files \subseteq files'
    /\ \A l \in libraries' :
           DirOf(l.images) \in dirs => DirOf(l.images) \in dirs'

\* C35: the compensation of a failed Create Library or Update Library removes
\* only a directory the request itself made: no directory or file that was
\* there before the request, and no directory of a stored Library, is removed,
\* also when two requests for the same path both pass the uniqueness check
\* and the insert of the second fails.
CompensationRemovesOwnDirectoryOnly == [][KeepsWhatWasThere]_vars

\* every Photo row and every Album row names a Library row that is stored
RowsReferenceLibrary ==
    /\ \A p \in photos : LibraryById(p.library_id) # {}
    /\ \A a \in albums : LibraryById(a.library_id) # {}

\* a directory appears only as the directory, or above the directory, of a
\* library that is stored
NoDirectoryWithoutLibrary ==
    \A d \in dirs' \ dirs :
        \E l \in libraries' : IsPrefix(d, DirOf(l.images))

\* C36: in every reachable state every Photo row and every Album row
\* references an existing Library, also when Upload Photo, Copy Photo or
\* Create Album checks the library before, and inserts after, a Delete
\* Library of it; and the directory of a deleted library does not appear
\* again.
NoOrphansOfDeletedLibrary ==
    []RowsReferenceLibrary /\ [][NoDirectoryWithoutLibrary]_vars

\* C37: deleting a library removes no file of a Photo row of another
\* library: every photo of another library that had its file has it after
\* the Delete Library, and its row is still there.
DeleteLibraryKeepsOtherFiles ==
    \A a \in libraries :
        LET o == DeleteLibrary(a.id, "none") IN
        \A p \in photos :
            (p.library_id # a.id /\ p.file_path \in files) =>
                p \in o.photos /\ p.file_path \in o.files

\* the requests that were answered 201 for the pair: each has inserted one
\* photo_tags row, and no row is deleted under SpecPhotoTagRace
InsertedFor(id, photoID) ==
    {r \in inflight : /\ r.kind = "AddTagToPhoto answered"
                      /\ r.id = id
                      /\ r.name = <<photoID>>
                      /\ r.row = {201}}

\* C38: when two Add Tag to Photo requests for the same pair both pass the
\* duplicate check, at most one photo_tags row of the pair exists afterwards:
\* in every reachable state at most one insert of a pair has been accepted,
\* and a pair with an accepted insert is in photo_tags.
PhotoTagPairUnique ==
    \A id \in TagIds, photoID \in PhotoIds :
        /\ Cardinality(InsertedFor(id, photoID)) <= 1
        /\ InsertedFor(id, photoID) # {} =>
               [photo_id |-> photoID, tag_id |-> id] \in photoTags

\* two requests for the same pair were both past the duplicate check; one was
\* answered 201 and the other 500
PhotoTagPairUniqueWitness ==
    \E r \in inflight, q \in inflight :
        /\ r.kind = "AddTagToPhoto answered" /\ q.kind = "AddTagToPhoto answered"
        /\ r.id = q.id /\ r.name = q.name
        /\ r.row = {201} /\ q.row = {500}
        /\ [photo_id |-> r.name[1], tag_id |-> r.id] \in photoTags

====
